---- MODULE Spec2Model ----
(***************************************************************************)
(* PipeRelay: the delivery pipeline.  The store (SQLite tables), the       *)
(* ingest fan-out, the polling worker pool, the worker, the retry policy   *)
(* and manual retry, modelled from the Go sources.                         *)
(***************************************************************************)
EXTENDS Integers, Sequences, FiniteSets, Bags, TLC

VARIABLES
    cfg,          \* config.DeliveryConfig as NewPool received it
    limits,       \* environment: how much the run may ingest, poll, fail
    now,          \* the wall clock time.Now(), in seconds
    applications, \* table applications: the set of application ids
    endpoints,    \* table endpoints: id -> row
    messages,     \* table messages: id -> row
    deliveries,   \* table deliveries: id -> row
    attempts,     \* table attempts: the bag of its rows (ids left out)
    ids,          \* how many message / delivery ids models.NewID has issued
    pollerPc,     \* where Pool.pollLoop stands
    batch,        \* the rows of the current poll not yet dispatched
    sem,          \* len(sem): slots of the counting semaphore held
    wg,           \* the counter of the pool's sync.WaitGroup
    workers,      \* the goroutines running Worker.Process (a bag of tasks)
    mainPc,       \* where serveCmd stands
    retryH,       \* the MessageHandler.Retry request in flight, or the last answer
    retries,      \* manual retries that found a failed delivery so far
    faults,       \* store writes that have failed so far
    polled,       \* rows the polls have returned so far
    sends,        \* history: delivery id -> HTTP sends performed for it
    ingestLog,    \* history: message id -> what its ingest saw and answered
    codes,        \* environment: the status codes the receivers answer with
    outages,      \* environment: whether sends can fail in transport
    payloads,     \* environment: the payload sizes the producers post
    ctxDone,      \* whether the context given to Pool.Start is cancelled
    request,      \* history: the last ingest request and its answer
    signer,       \* the last signed request and what its receiver found (SignSpec)
    wire,         \* environment: the response bodies and latencies of the receivers
    subs, evt, matchResult  \* inputs and result of matchesEventType (MatchSpec)

vars == <<cfg, limits, now, applications, endpoints, messages, deliveries, attempts, ids,
          pollerPc, batch, sem, wg, workers, mainPc, retryH, retries, faults,
          polled, sends, ingestLog, codes, outages, payloads, ctxDone, request,
          signer, wire, subs, evt, matchResult>>

storeVars == <<applications, endpoints, messages, deliveries, attempts, ids>>
poolVars == <<pollerPc, batch, sem, wg, workers>>
matchVars == <<subs, evt, matchResult>>
inputVars == <<cfg, limits, codes, outages, payloads, wire, matchVars>>
envVars == <<inputVars, ctxDone, request, signer>>

-----------------------------------------------------------------------------
(* Bounds of the model *)

MaxMessages == 1        \* ingests accepted in a run
MaxDeliveries == 2      \* delivery rows created in a run
MaxManualRetries == 1   \* manual retries that find a failed delivery
MaxFaults == 1          \* store writes that fail
MaxPolled == 3          \* rows returned by the polls of a run
MaxWorkers == 2         \* the largest `workers` configured
MaxAttemptsCfg == 3     \* the largest `max_attempts` configured
MaxSubs == 2            \* subscriptions of an endpoint (MatchSpec)
MaxStrLen == 3          \* characters of an event type (MatchSpec)

-----------------------------------------------------------------------------
(* Strings are sequences of characters *)

Dot == <<".">>
Star == <<"*">>
DotStar == <<".", "*">>

HasPrefix(s, prefix) ==
    /\ Len(prefix) <= Len(s)
    /\ SubSeq(s, 1, Len(prefix)) = prefix

HasSuffix(s, suffix) ==
    /\ Len(suffix) <= Len(s)
    /\ SubSeq(s, Len(s) - Len(suffix) + 1, Len(s)) = suffix

TrimSuffix(s, suffix) ==
    IF HasSuffix(s, suffix) THEN SubSeq(s, 1, Len(s) - Len(suffix)) ELSE s

\* Variant: the prefix is compared without its trailing dot
SubMatchesNoDot(sub, eventType) ==
    \/ sub = eventType
    \/ HasSuffix(sub, DotStar) /\ HasPrefix(eventType, TrimSuffix(sub, DotStar))
    \/ sub = Star

SubMatches(sub, eventType) ==
    \/ sub = eventType
    \/ /\ HasSuffix(sub, DotStar)
       /\ HasPrefix(eventType, TrimSuffix(sub, DotStar) \o Dot)
    \/ sub = Star

matchesEventType(subscribed, eventType) ==
    IF Len(subscribed) = 0
    THEN TRUE
    ELSE \E i \in 1..Len(subscribed) : SubMatches(subscribed[i], eventType)

-----------------------------------------------------------------------------
(* models.DeliveryStatus, nullable times, send results *)

DeliveryPending == "pending"
DeliverySuccess == "success"
DeliveryRetrying == "retrying"
DeliveryFailed == "failed"

NoTime == 0 - 1          \* a nil *time.Time / SQL NULL
NoHandler == [idle |-> TRUE]
NoResult == [StatusCode |-> 0, ResponseBody |-> 0, LatencyMs |-> 0, Error |-> "unset"]
NoRequest == [idle |-> TRUE, status |-> 0]
NoSigned == [signed |-> FALSE]

\* The read of a response body is never broken off
Unbroken == 0 - 1

\* Receivers that answer with an empty body at once
NoWire == [bodies |-> {0}, breaks |-> {Unbroken}, latencies |-> {0}, capture |-> FALSE]

\* io.LimitReader(resp.Body, 1024): bodies are modelled by their length, a
\* stored body by the number of leading bytes of the response that it holds
responseLimit == 1024

LimitReader(length, n) == IF length < n THEN length ELSE n

\* io.ReadAll returns what it has read when the read fails after `break`
\* bytes (connection reset, client timeout or cancellation during the body)
ReadAll(length, break) ==
    IF break # Unbroken /\ break < length THEN break ELSE length

\* What a send can meet: client.Do fails, or a response arrives with a
\* status code and a body of some length whose read may break off.  (The
\* stored URL has passed url.Parse in EndpointHandler.Create, so
\* http.NewRequestWithContext does not fail.)
Outcomes ==
    (IF outages
     THEN {[failed |-> TRUE, code |-> 0, length |-> 0, break |-> Unbroken]}
     ELSE {})
        \cup [failed : {FALSE}, code : codes, length : wire.bodies, break : wire.breaks]

\* Variant: the whole response body is kept
SendResultUnlimited(o, ms) ==
    IF o.failed
    THEN [StatusCode |-> 0, ResponseBody |-> 0, LatencyMs |-> ms,
          Error |-> "request failed"]
    ELSE [StatusCode |-> o.code,
          ResponseBody |-> ReadAll(o.length, o.break),
          LatencyMs |-> ms, Error |-> ""]

\* Sender.Send lines 52-67: the SendResult for what the send met
SendResult(o, ms) ==
    IF o.failed
    THEN [StatusCode |-> 0, ResponseBody |-> 0, LatencyMs |-> ms,
          Error |-> "request failed"]
    ELSE [StatusCode |-> o.code,
          ResponseBody |-> ReadAll(LimitReader(o.length, responseLimit), o.break),
          LatencyMs |-> ms, Error |-> ""]

\* What Sender.Send can return: a transport error (status code 0, error
\* set), or the status code of the response with an empty error.
SendResults == {SendResult(o, ms) : o \in Outcomes, ms \in wire.latencies}

-----------------------------------------------------------------------------
(* Retry policy *)

DefaultRetrySchedule == <<30, 120, 600, 1800, 7200, 28800, 86400>>

\* NewPool: an empty configured schedule is replaced by the default one
retrySchedule ==
    IF Len(cfg.RetrySchedule) = 0 THEN DefaultRetrySchedule ELSE cfg.RetrySchedule

\* Variant: the delay is taken one slot further in the schedule
NextRetryTimeNextSlot(attemptCount, schedule) ==
    LET idx == attemptCount
    IN  IF idx < 0 \/ idx >= Len(schedule) THEN NoTime ELSE now + schedule[idx + 1]

NextRetryTime(attemptCount, schedule) ==
    LET idx == attemptCount - 1
    IN  IF idx < 0 \/ idx >= Len(schedule) THEN NoTime ELSE now + schedule[idx + 1]

\* Variant: redirects counted as success
IsSuccessBelow400(statusCode) == statusCode >= 200 /\ statusCode < 400

IsSuccess(statusCode) == statusCode >= 200 /\ statusCode < 300

-----------------------------------------------------------------------------
(* The store *)

DeliveryIds == DOMAIN deliveries

\* WHERE status IN ('pending','retrying') AND (next_retry_at IS NULL OR next_retry_at <= ?)
IsDue(d) ==
    /\ d.Status \in {DeliveryPending, DeliveryRetrying}
    /\ (d.NextRetryAt = NoTime \/ d.NextRetryAt <= now)

DueIds == {i \in DeliveryIds : IsDue(deliveries[i])}

IsSortedByCreatedAt(s) ==
    \A i \in 1..Len(s) : \A j \in 1..Len(s) :
        i < j => deliveries[s[i]].CreatedAt <= deliveries[s[j]].CreatedAt

Min(a, b) == IF a <= b THEN a ELSE b

\* Sequences of n distinct elements of S
RECURSIVE Arrangements(_, _)
Arrangements(S, n) ==
    IF n = 0 THEN {<<>>}
    ELSE UNION {{<<x>> \o t : t \in Arrangements(S \ {x}, n - 1)} : x \in S}

\* ORDER BY created_at ASC LIMIT ?: the first `limit` due rows; rows with
\* equal created_at come in an order SQL does not fix.
\* Variant: the rows come back in any order
GetPendingDeliveriesAnyOrder(limit) ==
    {SubSeq(s, 1, Min(limit, Len(s))) :
        s \in Arrangements(DueIds, Cardinality(DueIds))}

GetPendingDeliveries(limit) ==
    {SubSeq(s, 1, Min(limit, Len(s))) :
        s \in {a \in Arrangements(DueIds, Cardinality(DueIds)) : IsSortedByCreatedAt(a)}}

\* A variant of UpdateDelivery with WHERE message_id = ? in place of WHERE id = ?
UpdateDeliveryByMessage(d) ==
    [i \in DeliveryIds |->
        IF deliveries[i].MessageID = d.MessageID
        THEN [deliveries[i] EXCEPT !.Status = d.Status,
                                   !.AttemptCount = d.AttemptCount,
                                   !.NextRetryAt = d.NextRetryAt]
        ELSE deliveries[i]]

\* UPDATE deliveries SET status, attempt_count, next_retry_at WHERE id = ?
UpdateDelivery(d) ==
    IF d.ID \in DeliveryIds
    THEN [deliveries EXCEPT ![d.ID] =
            [@ EXCEPT !.Status = d.Status,
                      !.AttemptCount = d.AttemptCount,
                      !.NextRetryAt = d.NextRetryAt]]
    ELSE deliveries

\* INSERT INTO attempts: the foreign key rejects a row whose delivery is gone
CreateAttempt(a) ==
    IF a.DeliveryID \in DeliveryIds
    THEN attempts (+) SetToBag({a})
    ELSE attempts

AttemptsOf(id) == {a \in BagToSet(attempts) : a.DeliveryID = id}

\* SELECT ... FROM endpoints WHERE app_id = ? AND active = 1 ORDER BY created_at DESC,
\* filtered by matchesEventType; endpoint ids grow with creation time.
GetEndpointsByEventType(appID, eventType) ==
    {e \in DOMAIN endpoints :
        /\ endpoints[e].AppID = appID
        /\ endpoints[e].Active
        /\ matchesEventType(endpoints[e].EventTypes, eventType)}

RECURSIVE Descending(_)
Descending(S) ==
    IF S = {} THEN <<>>
    ELSE LET m == CHOOSE x \in S : \A y \in S : y <= x
         IN  <<m>> \o Descending(S \ {m})

-----------------------------------------------------------------------------
(* The initial state: a migrated store holding two applications and their
   endpoints, the pool started, the API server serving. *)

EvAB == <<"a", ".", "b">>
EvB == <<"b">>
EventTypes == {EvAB, EvB}

Endpoint(appID, eventTypes, active) ==
    [AppID |-> appID, EventTypes |-> eventTypes, Active |-> active]

InitEndpoints ==
    <<Endpoint(1, <<<<"a", ".", "*">>>>, TRUE), Endpoint(1, <<>>, TRUE)>>

Configs ==
    [Workers : 1..MaxWorkers, MaxAttempts : 1..MaxAttemptsCfg,
     RetrySchedule : {<<30>>}]

InitStore ==
    /\ applications = {1}
    /\ endpoints = InitEndpoints
    /\ messages = <<>>
    /\ deliveries = <<>>
    /\ attempts = EmptyBag
    /\ ids = [msg |-> 0, dlv |-> 0]

InitPool ==
    /\ pollerPc = "select"
    /\ batch = <<>>
    /\ sem = 0
    /\ wg = 1
    /\ workers = EmptyBag

InitRest ==
    /\ now = 0
    /\ mainPc = "running"
    /\ retryH = NoHandler
    /\ retries = 0
    /\ faults = 0
    /\ polled = 0
    /\ sends = <<>>
    /\ ingestLog = <<>>
    /\ payloads = {2}
    /\ ctxDone = FALSE
    /\ request = NoRequest
    /\ signer = NoSigned
    /\ wire = NoWire
    /\ subs = <<>>
    /\ evt = <<>>
    /\ matchResult = <<>>

\* No budget on the rows the poller may select
Unlimited == 0 - 1

Limits(nMessages, nDeliveries, nRetries, nFaults, nPolled) ==
    [messages |-> nMessages, deliveries |-> nDeliveries, retries |-> nRetries,
     faults |-> nFaults, polled |-> nPolled]

Init ==
    /\ cfg \in Configs
    /\ limits = Limits(MaxMessages, MaxDeliveries, MaxManualRetries, MaxFaults, MaxPolled)
    /\ codes = {200, 500}
    /\ outages = FALSE
    /\ InitStore
    /\ InitPool
    /\ InitRest

-----------------------------------------------------------------------------
(* Store writes can fail; the model lets at most MaxFaults of them fail. *)

\* ok = FALSE is a failing store write
Fault(ok) ==
    IF ok THEN UNCHANGED faults
    ELSE faults < limits.faults /\ faults' = faults + 1

\* A store call made with the pool's context: database/sql returns ctx.Err()
\* without running the statement once the context is cancelled
PoolStoreCall(ok) ==
    IF ctxDone THEN ~ok /\ UNCHANGED faults
    ELSE Fault(ok)

-----------------------------------------------------------------------------
(* Ingest: MessageHandler.Send, after the request was authenticated, decoded
   and validated.  failOp names the store call that fails (if any), k the
   CreateDelivery call that fails when failOp is CreateDelivery. *)

FailOps == {"none", "CreateMessage", "GetEndpointsByEventType", "CreateDelivery"}

\* Variant: every delivery of the fan-out goes to the oldest endpoint
NewDeliveryOneEndpoint(id, messageID, endpointID, createdAt) ==
    [ID |-> id, MessageID |-> messageID, EndpointID |-> 1,
     Status |-> DeliveryPending, AttemptCount |-> 0, NextRetryAt |-> NoTime,
     CreatedAt |-> createdAt]

\* Variant: a delivery is created as already tried once
NewDeliveryTried(id, messageID, endpointID, createdAt) ==
    [ID |-> id, MessageID |-> messageID, EndpointID |-> endpointID,
     Status |-> DeliveryPending, AttemptCount |-> 1, NextRetryAt |-> NoTime,
     CreatedAt |-> createdAt]

\* Lines 74-81: the row of a new delivery
NewDelivery(id, messageID, endpointID, createdAt) ==
    [ID |-> id, MessageID |-> messageID, EndpointID |-> endpointID,
     Status |-> DeliveryPending, AttemptCount |-> 0, NextRetryAt |-> NoTime,
     CreatedAt |-> createdAt]

\* f extended by the rows `rows`, a sequence of n rows keyed first+1..first+n
Extend(f, first, rows) ==
    [i \in DOMAIN f \cup {first + j : j \in 1..Len(rows)} |->
        IF i \in DOMAIN f THEN f[i] ELSE rows[i - first]]

MessageHandlerSend(app, eventType, failOp, k) ==
    /\ mainPc = "running"
    /\ app \in applications
    /\ ids.msg < limits.messages
    /\ Fault(failOp = "none")
    /\ LET m == ids.msg + 1
           found == Descending(GetEndpointsByEventType(app, eventType))
           created == IF failOp = "CreateDelivery" THEN k - 1 ELSE Len(found)
           rows == [j \in 1..created |->
                        NewDelivery(ids.dlv + j, m, found[j], m)]
       IN  /\ failOp = "CreateDelivery" => k \in 1..Len(found)
           /\ failOp # "CreateDelivery" => k = 1
           /\ ids.dlv + created <= limits.deliveries
           /\ IF failOp = "CreateMessage"
              THEN UNCHANGED <<ids, messages, deliveries, attempts, sends, ingestLog>>
              ELSE /\ messages' = Extend(messages, ids.msg,
                                         <<[AppID |-> app, EventType |-> eventType]>>)
                   /\ IF failOp = "GetEndpointsByEventType"
                      THEN /\ ids' = [ids EXCEPT !.msg = m]
                           /\ ingestLog' = Extend(ingestLog, ids.msg,
                                    <<[status |-> 500, deliveries |-> 0]>>)
                           /\ UNCHANGED <<deliveries, attempts, sends>>
                      ELSE /\ ids' = [msg |-> m, dlv |-> ids.dlv + created]
                           /\ deliveries' = Extend(deliveries, ids.dlv, rows)
                           /\ UNCHANGED attempts
                           /\ sends' = Extend(sends, ids.dlv, [j \in 1..created |-> 0])
                           /\ ingestLog' = Extend(ingestLog, ids.msg,
                                    <<IF failOp = "CreateDelivery"
                                      THEN [status |-> 500, deliveries |-> 0]
                                      ELSE [status |-> 202, deliveries |-> created]>>)
    /\ UNCHANGED <<envVars, polled, now, applications, endpoints, poolVars, mainPc,
                   retryH, retries>>

-----------------------------------------------------------------------------
(* MessageHandler.Send step by step, from the request body on: the pool
   runs while the handler creates the deliveries one by one. *)

maxPayloadSize == 262144

\* The length of the shortest body that carries the event type and a payload
\* of payloadLen bytes: {"event_type":"<type>","payload":<payload>}
BodyLen(eventType, payloadLen) == 28 + Len(eventType) + payloadLen

\* http.MaxBytesReader(w, r.Body, maxPayloadSize) and the decoder: a body
\* longer than the limit fails to decode
Decodes(eventType, payloadLen) == BodyLen(eventType, payloadLen) <= maxPayloadSize

Answer(status, payloadLen, m, created) ==
    [idle |-> TRUE, status |-> status, payloadLen |-> payloadLen, msg |-> m,
     created |-> created, deliveries |-> Cardinality(created)]

\* Lines 29-70: decode and validate the request, create the message, find
\* the endpoints.  failOp names the store call that fails (if any).
MessageHandlerSendBegin(app, eventType, payloadLen, failOp) ==
    /\ mainPc = "running"
    /\ request.idle
    /\ app \in applications
    /\ payloadLen \in payloads
    /\ failOp \in {"none", "CreateMessage", "GetEndpointsByEventType"}
    /\ IF ~Decodes(eventType, payloadLen) \/ payloadLen = 0
       THEN /\ failOp = "none"
            /\ request' = Answer(400, payloadLen, 0, {})
            /\ UNCHANGED <<messages, ids, faults>>
       ELSE /\ ids.msg < limits.messages
            /\ Fault(failOp = "none")
            /\ LET m == ids.msg + 1
                   found == Descending(GetEndpointsByEventType(app, eventType))
               IN  IF failOp = "CreateMessage"
                   THEN /\ request' = Answer(500, payloadLen, 0, {})
                        /\ UNCHANGED <<messages, ids>>
                   ELSE /\ messages' = Extend(messages, ids.msg,
                                            <<[AppID |-> app, EventType |-> eventType]>>)
                        /\ ids' = [ids EXCEPT !.msg = m]
                        /\ request' =
                              IF failOp = "GetEndpointsByEventType"
                              THEN Answer(500, payloadLen, m, {})
                              ELSE IF found = <<>>
                                   THEN Answer(202, payloadLen, m, {})
                                   ELSE [idle |-> FALSE, status |-> 0,
                                         payloadLen |-> payloadLen, msg |-> m,
                                         found |-> found, created |-> {}]
    /\ UNCHANGED <<inputVars, ctxDone, signer, polled, now, applications, endpoints,
                   deliveries, attempts, poolVars, mainPc, retryH, retries, sends,
                   ingestLog>>

\* Lines 73-92: one turn of the loop (CreateDelivery); the handler answers
\* 500 when the insert fails and 202 after the last endpoint
MessageHandlerSendCreateDelivery(ok) ==
    /\ mainPc \in {"running", "draining"}
    /\ ~request.idle
    /\ Fault(ok)
    /\ LET e == Head(request.found)
           id == ids.dlv + 1
           inserted == /\ ok
                       /\ e \in DOMAIN endpoints
                       /\ request.msg \in DOMAIN messages
           created == request.created \cup {id}
       IN  IF inserted
           THEN /\ id <= limits.deliveries
                /\ deliveries' = Extend(deliveries, ids.dlv,
                                    <<NewDelivery(id, request.msg, e, request.msg)>>)
                /\ sends' = Extend(sends, ids.dlv, <<0>>)
                /\ ids' = [ids EXCEPT !.dlv = id]
                /\ request' =
                      IF Tail(request.found) = <<>>
                      THEN Answer(202, request.payloadLen, request.msg, created)
                      ELSE [request EXCEPT !.found = Tail(@), !.created = created]
           ELSE /\ request' = [Answer(500, request.payloadLen, request.msg,
                                      request.created) EXCEPT !.deliveries = 0]
                /\ UNCHANGED <<deliveries, sends, ids>>
    /\ UNCHANGED <<inputVars, ctxDone, signer, polled, now, applications, endpoints,
                   messages, attempts, poolVars, mainPc, retryH, retries, ingestLog>>

\* EndpointHandler.Toggle
Toggle(e) ==
    /\ mainPc = "running"
    /\ e \in DOMAIN endpoints
    /\ endpoints' = [endpoints EXCEPT ![e].Active = ~@]
    /\ UNCHANGED <<envVars, polled, now, applications, messages, deliveries, attempts,
                   ids, poolVars, mainPc, retryH, retries, faults, sends,
                   ingestLog>>

-----------------------------------------------------------------------------
(* Deletion.  The tables are created with REFERENCES ... ON DELETE CASCADE
   and the connection is opened with _foreign_keys=on. *)

\* f without the keys outside `keep`
Restrict(f, keep) == [i \in DOMAIN f \cap keep |-> f[i]]

\* The store after the endpoints `gone` and the messages `lost` were deleted:
\* their deliveries go, and the attempts of these
Cascade(gone, lost) ==
    LET kept == {i \in DeliveryIds :
                    /\ deliveries[i].EndpointID \notin gone
                    /\ deliveries[i].MessageID \notin lost}
    IN  /\ endpoints' = Restrict(endpoints, DOMAIN endpoints \ gone)
        /\ messages' = Restrict(messages, DOMAIN messages \ lost)
        /\ deliveries' = Restrict(deliveries, kept)
        /\ attempts' = Restrict(attempts,
                                {a \in BagToSet(attempts) : a.DeliveryID \in kept})

\* Variant: the endpoint row goes, its deliveries stay
DeleteEndpointNoCascade(e) ==
    /\ mainPc = "running"
    /\ e \in DOMAIN endpoints
    /\ endpoints' = Restrict(endpoints, DOMAIN endpoints \ {e})
    /\ UNCHANGED <<envVars, polled, now, applications, messages, deliveries, attempts,
                   ids, poolVars, mainPc, retryH, retries, faults, sends, ingestLog>>

\* EndpointHandler.Delete: DELETE FROM endpoints WHERE id = ?
DeleteEndpoint(e) ==
    /\ mainPc = "running"
    /\ e \in DOMAIN endpoints
    /\ Cascade({e}, {})
    /\ UNCHANGED <<envVars, polled, now, applications, ids, poolVars, mainPc, retryH,
                   retries, faults, sends, ingestLog>>

\* ApplicationHandler.Delete: DELETE FROM applications WHERE id = ?
DeleteApplication(app) ==
    /\ mainPc = "running"
    /\ app \in applications
    /\ applications' = applications \ {app}
    /\ Cascade({e \in DOMAIN endpoints : endpoints[e].AppID = app},
               {m \in DOMAIN messages : messages[m].AppID = app})
    /\ UNCHANGED <<envVars, polled, now, ids, poolVars, mainPc, retryH, retries,
                   faults, sends, ingestLog>>

-----------------------------------------------------------------------------
(* Manual retry: MessageHandler.Retry.  The handler reads the deliveries of
   the message, then writes each failed one back from the copy it read. *)

RECURSIVE Ascending(_)
Ascending(S) ==
    IF S = {} THEN <<>>
    ELSE LET m == CHOOSE x \in S : \A y \in S : x <= y
         IN  <<m>> \o Ascending(S \ {m})

GetDeliveriesByMessage(messageID) ==
    LET idsOf == Ascending({i \in DeliveryIds : deliveries[i].MessageID = messageID})
    IN  [j \in 1..Len(idsOf) |-> deliveries[idsOf[j]]]

IsFailed(d) == d.Status = DeliveryFailed

\* Lines 144-162: the lookups; err: one of them failed
MessageHandlerRetry(m, err) ==
    /\ mainPc = "running"
    /\ retryH.idle
    /\ m \in DOMAIN messages
    /\ LET failed == SelectSeq(GetDeliveriesByMessage(m), IsFailed)
       IN  IF err \/ failed = <<>>
           THEN UNCHANGED <<retryH, retries>>
           ELSE /\ retries < limits.retries
                /\ retries' = retries + 1
                /\ retryH' = [idle |-> FALSE, msg |-> m, pending |-> failed,
                              now |-> now, retried |-> 0]
    /\ UNCHANGED <<envVars, polled, now, storeVars, poolVars, mainPc, faults, sends,
                   ingestLog>>

\* Variant: the manual retry changes the status only
RetryRowStatusOnly(d, at) == [d EXCEPT !.Status = DeliveryRetrying]

\* Lines 165-166: d.Status = retrying, d.NextRetryAt = &now
RetryRow(d, at) == [d EXCEPT !.Status = DeliveryRetrying, !.NextRetryAt = at]

\* Lines 163-172: one turn of the loop, on the next failed row read
MessageHandlerRetryUpdate(ok) ==
    /\ mainPc \in {"running", "draining"}
    /\ ~retryH.idle
    /\ Fault(ok)
    /\ LET d == RetryRow(Head(retryH.pending), retryH.now)
           rest == Tail(retryH.pending)
       IN  /\ deliveries' = IF ok THEN UpdateDelivery(d) ELSE deliveries
           /\ retryH' = LET retried == IF ok THEN retryH.retried + 1
                                         ELSE retryH.retried
                        IN  IF rest = <<>>
                            THEN [idle |-> TRUE, msg |-> retryH.msg, retried |-> retried]
                            ELSE [retryH EXCEPT !.pending = rest, !.retried = retried]
    /\ UNCHANGED <<envVars, polled, now, applications, endpoints, messages, attempts,
                   ids, poolVars, mainPc, retries, sends, ingestLog>>

-----------------------------------------------------------------------------
(* Worker.Process: one goroutine per dispatched row.  A task holds its own
   copy d of the row, as the poll read it. *)

Task(d, pc, result) == [d |-> d, pc |-> pc, result |-> result]

Tasks == BagToSet(workers)

\* Variant: Process returns without giving its semaphore slot back
ReturnKeepsSlot(t) ==
    /\ workers' = workers (-) SetToBag({t})
    /\ sem' = sem
    /\ wg' = wg - 1

\* Process returns: the deferred <-sem and wg.Done run
Return(t) ==
    /\ workers' = workers (-) SetToBag({t})
    /\ sem' = sem - 1
    /\ wg' = wg - 1

Goto(t, t2) == workers' = (workers (-) SetToBag({t})) (+) SetToBag({t2})

\* SELECT ... FROM messages WHERE id = ?: the row with its id
GetMessage(id) == [ID |-> id] @@ messages[id]

\* Sender.Send lines 38-50: the request that goes out for task t, as far as
\* the rows of the model determine it
OnWire(t) ==
    [signed |-> TRUE,
     delivery |-> t.d.ID,
     headers |-> [ID |-> GetMessage(t.d.MessageID).ID]]

\* Variant: a row that cannot be processed is stored as failed
ProcessSendFailsAbandoned(t, err, result) ==
    /\ mainPc \in {"running", "draining", "stopping"}
    /\ t \in Tasks
    /\ t.pc = "Send"
    /\ result \in SendResults
    /\ ctxDone => err
    /\ IF \/ err
          \/ t.d.MessageID \notin DOMAIN messages
          \/ t.d.EndpointID \notin DOMAIN endpoints
          \/ ~endpoints[t.d.EndpointID].Active
       THEN /\ Return(t)
            /\ deliveries' = UpdateDelivery([t.d EXCEPT !.Status = DeliveryFailed])
            /\ UNCHANGED <<sends, signer>>
       ELSE /\ Goto(t, Task([t.d EXCEPT !.AttemptCount = @ + 1], "CreateAttempt", result))
            /\ sends' = IF t.d.ID \in DOMAIN sends
                        THEN [sends EXCEPT ![t.d.ID] = @ + 1]
                        ELSE sends
            /\ signer' = IF wire.capture THEN OnWire(t) ELSE signer
            /\ UNCHANGED <<sem, wg, deliveries>>
    /\ UNCHANGED <<inputVars, ctxDone, request, polled, now, applications, endpoints,
                   messages, attempts, ids, pollerPc, batch, mainPc, retryH, retries,
                   faults, ingestLog>>

\* Lines 31-50 of Process: load the message and the endpoint, abandon the
\* row when one is missing or the endpoint is inactive, else send and count
\* the attempt on the task's copy.  err: a lookup failed.
ProcessSend(t, err, result) ==
    /\ mainPc \in {"running", "draining", "stopping"}
    /\ t \in Tasks
    /\ t.pc = "Send"
    /\ result \in SendResults
    /\ ctxDone => err
    /\ IF \/ err
          \/ t.d.MessageID \notin DOMAIN messages
          \/ t.d.EndpointID \notin DOMAIN endpoints
          \/ ~endpoints[t.d.EndpointID].Active
       THEN /\ Return(t)
            /\ UNCHANGED <<sends, signer>>
       ELSE /\ Goto(t, Task([t.d EXCEPT !.AttemptCount = @ + 1], "CreateAttempt", result))
            /\ sends' = IF t.d.ID \in DOMAIN sends
                        THEN [sends EXCEPT ![t.d.ID] = @ + 1]
                        ELSE sends
            /\ signer' = IF wire.capture THEN OnWire(t) ELSE signer
            /\ UNCHANGED <<sem, wg>>
    /\ UNCHANGED <<inputVars, ctxDone, request, polled, now, storeVars, pollerPc, batch,
                   mainPc, retryH, retries, faults, ingestLog>>

\* The result of a send whose context was cancelled while client.Do ran
Cancelled ==
    [StatusCode |-> 0, ResponseBody |-> 0, LatencyMs |-> 0,
     Error |-> "request failed: context canceled"]

\* Lines 31-50 when the context is cancelled during the send: the lookups
\* have succeeded, client.Do returns the context's error
ProcessSendCancelled(t) ==
    /\ mainPc \in {"running", "draining", "stopping"}
    /\ t \in Tasks
    /\ t.pc = "Send"
    /\ ~ctxDone
    /\ t.d.MessageID \in DOMAIN messages
    /\ t.d.EndpointID \in DOMAIN endpoints
    /\ endpoints[t.d.EndpointID].Active
    /\ ctxDone' = TRUE
    /\ Goto(t, Task([t.d EXCEPT !.AttemptCount = @ + 1], "CreateAttempt", Cancelled))
    /\ sends' = IF t.d.ID \in DOMAIN sends
                THEN [sends EXCEPT ![t.d.ID] = @ + 1]
                ELSE sends
    /\ signer' = IF wire.capture THEN OnWire(t) ELSE signer
    /\ UNCHANGED <<inputVars, request, polled, now, storeVars, pollerPc,
                   batch, sem, wg, mainPc, retryH, retries, faults, ingestLog>>

NewAttempt(d, result) ==
    [DeliveryID |-> d.ID, AttemptNumber |-> d.AttemptCount,
     StatusCode |-> result.StatusCode, ResponseBody |-> result.ResponseBody,
     LatencyMs |-> result.LatencyMs, Error |-> result.Error]

\* Lines 53-66: a failure to record the attempt is logged, Process goes on
ProcessCreateAttempt(t, ok) ==
    /\ mainPc \in {"running", "draining", "stopping"}
    /\ t \in Tasks
    /\ t.pc = "CreateAttempt"
    /\ PoolStoreCall(ok)
    /\ attempts' = IF ok THEN CreateAttempt(NewAttempt(t.d, t.result)) ELSE attempts
    /\ Goto(t, [t EXCEPT !.pc = "UpdateDelivery"])
    /\ UNCHANGED <<envVars, polled, now, applications, endpoints, messages, deliveries,
                   ids, pollerPc, batch, sem, wg, mainPc, retryH, retries, sends,
                   ingestLog>>

\* Variant: the failed branch keeps the previous retry time
ClassifyKeepsRetryTime(d, result) ==
    IF result.Error = "" /\ IsSuccess(result.StatusCode)
    THEN [d EXCEPT !.Status = DeliverySuccess, !.NextRetryAt = NoTime]
    ELSE IF d.AttemptCount >= cfg.MaxAttempts
         THEN [d EXCEPT !.Status = DeliveryFailed]
         ELSE [d EXCEPT !.Status = DeliveryRetrying,
                        !.NextRetryAt = NextRetryTime(d.AttemptCount, retrySchedule)]

\* Variant: gives up one attempt early
ClassifyGivesUpEarly(d, result) ==
    IF result.Error = "" /\ IsSuccess(result.StatusCode)
    THEN [d EXCEPT !.Status = DeliverySuccess, !.NextRetryAt = NoTime]
    ELSE IF d.AttemptCount + 1 >= cfg.MaxAttempts
         THEN [d EXCEPT !.Status = DeliveryFailed, !.NextRetryAt = NoTime]
         ELSE [d EXCEPT !.Status = DeliveryRetrying,
                        !.NextRetryAt = NextRetryTime(d.AttemptCount, retrySchedule)]

\* Variant: fails the delivery only when the count is exactly the maximum
ClassifyExactMax(d, result) ==
    IF result.Error = "" /\ IsSuccess(result.StatusCode)
    THEN [d EXCEPT !.Status = DeliverySuccess, !.NextRetryAt = NoTime]
    ELSE IF d.AttemptCount = cfg.MaxAttempts
         THEN [d EXCEPT !.Status = DeliveryFailed, !.NextRetryAt = NoTime]
         ELSE [d EXCEPT !.Status = DeliveryRetrying,
                        !.NextRetryAt = NextRetryTime(d.AttemptCount, retrySchedule)]

\* Lines 68-92: the retry classification, on the task's copy of the row
Classify(d, result) ==
    IF result.Error = "" /\ IsSuccess(result.StatusCode)
    THEN [d EXCEPT !.Status = DeliverySuccess, !.NextRetryAt = NoTime]
    ELSE IF d.AttemptCount >= cfg.MaxAttempts
         THEN [d EXCEPT !.Status = DeliveryFailed, !.NextRetryAt = NoTime]
         ELSE [d EXCEPT !.Status = DeliveryRetrying,
                        !.NextRetryAt = NextRetryTime(d.AttemptCount, retrySchedule)]

\* Time("next_retry", *d.NextRetryAt) dereferences the pointer NextRetryTime
\* returned: nil once the schedule is exhausted
Panics(d, result) ==
    /\ Classify(d, result).Status = DeliveryRetrying
    /\ Classify(d, result).NextRetryAt = NoTime

\* Variant: a failed update has written the row all the same
ProcessUpdateDeliveryWritesOnError(t, ok) ==
    /\ mainPc \in {"running", "draining", "stopping"}
    /\ t \in Tasks
    /\ t.pc = "UpdateDelivery"
    /\ ~Panics(t.d, t.result)
    /\ PoolStoreCall(ok)
    /\ deliveries' = UpdateDelivery(Classify(t.d, t.result))
    /\ Return(t)
    /\ UNCHANGED <<envVars, polled, now, applications, endpoints, messages, attempts,
                   ids, pollerPc, batch, mainPc, retryH, retries, sends,
                   ingestLog>>

\* Lines 68-96: classify and persist the row
ProcessUpdateDelivery(t, ok) ==
    /\ mainPc \in {"running", "draining", "stopping"}
    /\ t \in Tasks
    /\ t.pc = "UpdateDelivery"
    /\ ~Panics(t.d, t.result)
    /\ PoolStoreCall(ok)
    /\ deliveries' = IF ok THEN UpdateDelivery(Classify(t.d, t.result)) ELSE deliveries
    /\ Return(t)
    /\ UNCHANGED <<envVars, polled, now, applications, endpoints, messages, attempts,
                   ids, pollerPc, batch, mainPc, retryH, retries, sends,
                   ingestLog>>

\* An unrecovered panic in a goroutine ends the process
ProcessPanic(t) ==
    /\ mainPc \in {"running", "draining", "stopping"}
    /\ t \in Tasks
    /\ t.pc = "UpdateDelivery"
    /\ Panics(t.d, t.result)
    /\ mainPc' = "crashed"
    /\ pollerPc' = "dead"
    /\ batch' = <<>>
    /\ sem' = 0
    /\ wg' = 0
    /\ workers' = EmptyBag
    /\ retryH' = NoHandler
    /\ UNCHANGED <<envVars, polled, now, storeVars, retries, faults, sends, ingestLog>>

-----------------------------------------------------------------------------
(* Pool.pollLoop, Pool.Stop and serveCmd *)

Rows(idSeq) == [j \in 1..Len(idSeq) |-> deliveries[idSeq[j]]]

\* Variant: a failed query ends the poll loop
PollTickFailureExits(ok) ==
    /\ mainPc \in {"running", "draining", "stopping"}
    /\ pollerPc = "select"
    /\ PoolStoreCall(ok)
    /\ IF ok
       THEN /\ \E due \in GetPendingDeliveries(cfg.Workers) :
                /\ limits.polled = Unlimited \/ polled + Len(due) <= limits.polled
                /\ polled' = IF limits.polled = Unlimited THEN polled
                              ELSE polled + Len(due)
                /\ batch' = Rows(due)
                /\ pollerPc' = IF due = <<>> THEN "select" ELSE "dispatch"
            /\ UNCHANGED wg
       ELSE /\ pollerPc' = "exited"
            /\ wg' = wg - 1
            /\ UNCHANGED <<batch, polled>>
    /\ UNCHANGED <<envVars, now, storeVars, sem, workers, mainPc, retryH,
                   retries, sends, ingestLog>>

\* case <-ticker.C: the poll; a failed query is logged and the loop continues
PollTick(ok) ==
    /\ mainPc \in {"running", "draining", "stopping"}
    /\ pollerPc = "select"
    /\ PoolStoreCall(ok)
    /\ IF ok
       THEN \E due \in GetPendingDeliveries(cfg.Workers) :
                /\ limits.polled = Unlimited \/ polled + Len(due) <= limits.polled
                /\ polled' = IF limits.polled = Unlimited THEN polled
                              ELSE polled + Len(due)
                /\ batch' = Rows(due)
                /\ pollerPc' = IF due = <<>> THEN "select" ELSE "dispatch"
       ELSE UNCHANGED <<batch, pollerPc, polled>>
    /\ UNCHANGED <<envVars, now, storeVars, sem, wg, workers, mainPc, retryH,
                   retries, sends, ingestLog>>

\* Variant: spawns a worker that holds no semaphore slot
PollDispatchUncounted ==
    /\ mainPc \in {"running", "draining", "stopping"}
    /\ pollerPc = "dispatch"
    /\ sem < cfg.Workers
    /\ sem' = sem
    /\ wg' = wg + 1
    /\ workers' = workers (+) SetToBag({Task(Head(batch), "Send", NoResult)})
    /\ batch' = Tail(batch)
    /\ pollerPc' = IF Tail(batch) = <<>> THEN "select" ELSE "dispatch"
    /\ UNCHANGED <<envVars, polled, now, storeVars, mainPc, retryH, retries, faults,
                   sends, ingestLog>>

\* Variant: spawns without acquiring a semaphore slot
PollDispatchNoSemaphore ==
    /\ mainPc \in {"running", "draining", "stopping"}
    /\ pollerPc = "dispatch"
    /\ sem' = sem + 1
    /\ wg' = wg + 1
    /\ workers' = workers (+) SetToBag({Task(Head(batch), "Send", NoResult)})
    /\ batch' = Tail(batch)
    /\ pollerPc' = IF Tail(batch) = <<>> THEN "select" ELSE "dispatch"
    /\ UNCHANGED <<envVars, polled, now, storeVars, mainPc, retryH, retries, faults,
                   sends, ingestLog>>

\* sem <- struct{}{}; p.wg.Add(1); go func() { ... p.worker.Process(ctx, d) }()
PollDispatch ==
    /\ mainPc \in {"running", "draining", "stopping"}
    /\ pollerPc = "dispatch"
    /\ sem < cfg.Workers
    /\ sem' = sem + 1
    /\ wg' = wg + 1
    /\ workers' = workers (+) SetToBag({Task(Head(batch), "Send", NoResult)})
    /\ batch' = Tail(batch)
    /\ pollerPc' = IF Tail(batch) = <<>> THEN "select" ELSE "dispatch"
    /\ UNCHANGED <<envVars, polled, now, storeVars, mainPc, retryH, retries, faults,
                   sends, ingestLog>>

\* case <-p.stop: return; case <-ctx.Done(): return; the deferred wg.Done of
\* Pool.Start runs
PollExit ==
    /\ mainPc \in {"running", "draining", "stopping"}
    /\ mainPc = "stopping" \/ ctxDone
    /\ pollerPc = "select"
    /\ pollerPc' = "exited"
    /\ wg' = wg - 1
    /\ UNCHANGED <<envVars, polled, now, storeVars, batch, sem, workers, mainPc, retryH,
                   retries, faults, sends, ingestLog>>

\* serveCmd on SIGINT/SIGTERM: server.Shutdown closes the listeners; requests
\* in flight go on
Shutdown ==
    /\ mainPc = "running"
    /\ mainPc' = "draining"
    /\ UNCHANGED <<envVars, polled, now, storeVars, poolVars, retryH, retries, faults,
                   sends, ingestLog>>

\* server.Shutdown has returned (the requests in flight are answered; its
\* 10 s deadline is left out); Pool.Stop: close(p.stop)
PoolStop ==
    /\ mainPc = "draining"
    /\ retryH.idle
    /\ mainPc' = "stopping"
    /\ UNCHANGED <<envVars, polled, now, storeVars, poolVars, retryH, retries, faults,
                   sends, ingestLog>>

\* Variant: Stop returns as soon as the poller has exited
StopReturnsAfterPoller ==
    /\ mainPc = "stopping"
    /\ pollerPc = "exited"
    /\ mainPc' = "stopped"
    /\ UNCHANGED <<envVars, polled, now, storeVars, poolVars, retryH, retries, faults,
                   sends, ingestLog>>

\* Pool.Stop: p.wg.Wait() returns
StopReturns ==
    /\ mainPc = "stopping"
    /\ wg = 0
    /\ mainPc' = "stopped"
    /\ UNCHANGED <<envVars, polled, now, storeVars, poolVars, retryH, retries, faults,
                   sends, ingestLog>>

\* Variant: the store is closed while Pool.Stop is still waiting
CloseStoreEarly ==
    /\ mainPc \in {"stopping", "stopped"}
    /\ mainPc' = "closed"
    /\ ctxDone' = TRUE
    /\ UNCHANGED <<inputVars, request, signer, polled, now, storeVars, poolVars, retryH, retries, faults,
                   sends, ingestLog>>

\* serveCmd returns: the deferred cancel() and store.Close() run
CloseStore ==
    /\ mainPc = "stopped"
    /\ mainPc' = "closed"
    /\ ctxDone' = TRUE
    /\ UNCHANGED <<inputVars, request, signer, polled, now, storeVars, poolVars, retryH, retries, faults,
                   sends, ingestLog>>

\* The caller of Pool.Start cancels the context it passed
CancelContext ==
    /\ mainPc \in {"running", "draining", "stopping"}
    /\ ~ctxDone
    /\ ctxDone' = TRUE
    /\ UNCHANGED <<inputVars, request, signer, polled, now, storeVars, poolVars,
                   mainPc, retryH, retries, faults, sends, ingestLog>>

\* Time passes, up to the next time some delivery waits for
AdvanceTime ==
    /\ mainPc \in {"running", "draining", "stopping"}
    /\ \E i \in DeliveryIds :
        /\ deliveries[i].NextRetryAt > now
        /\ now' = deliveries[i].NextRetryAt
    /\ UNCHANGED <<envVars, polled, storeVars, poolVars, mainPc, retryH, retries,
                   faults, sends, ingestLog>>

-----------------------------------------------------------------------------

Next ==
    \/ \E app \in applications, eventType \in EventTypes, failOp \in FailOps,
          k \in DOMAIN endpoints :
            MessageHandlerSend(app, eventType, failOp, k)
    \/ \E e \in DOMAIN endpoints : Toggle(e)
    \/ \E m \in DOMAIN messages, err \in BOOLEAN : MessageHandlerRetry(m, err)
    \/ \E ok \in BOOLEAN : MessageHandlerRetryUpdate(ok)
    \/ \E t \in Tasks, err \in BOOLEAN, result \in SendResults : ProcessSend(t, err, result)
    \/ \E t \in Tasks, ok \in BOOLEAN : ProcessCreateAttempt(t, ok)
    \/ \E t \in Tasks, ok \in BOOLEAN : ProcessUpdateDelivery(t, ok)
    \/ \E t \in Tasks : ProcessPanic(t)
    \/ \E ok \in BOOLEAN : PollTick(ok)
    \/ PollDispatch
    \/ PollExit
    \/ Shutdown
    \/ PoolStop
    \/ StopReturns
    \/ CloseStore
    \/ AdvanceTime

Spec == Init /\ [][Next]_vars

-----------------------------------------------------------------------------
(* ClassifySpec: the same system with one endpoint, receivers that answer
   with status codes around the 2xx range and sends that can fail in
   transport. *)

BoundaryCodes == {199, 200, 299, 300, 500}

InitClassify ==
    /\ cfg \in Configs
    /\ limits = Limits(MaxMessages, MaxDeliveries, MaxManualRetries, MaxFaults, MaxPolled)
    /\ codes = BoundaryCodes
    /\ outages = TRUE
    /\ applications = {1}
    /\ endpoints = <<Endpoint(1, <<>>, TRUE)>>
    /\ messages = <<>>
    /\ deliveries = <<>>
    /\ attempts = EmptyBag
    /\ ids = [msg |-> 0, dlv |-> 0]
    /\ InitPool
    /\ InitRest

ClassifySpec == InitClassify /\ [][Next]_vars

-----------------------------------------------------------------------------
(* BackoffSpec: one endpoint whose receiver can fail every time, under the
   README's example schedule with four attempts, and under an empty
   schedule (NewPool then uses DefaultRetrySchedule). *)

BackoffConfigs ==
    {[Workers |-> 1, MaxAttempts |-> 4, RetrySchedule |-> <<30, 120, 600>>],
     [Workers |-> 1, MaxAttempts |-> 2, RetrySchedule |-> <<>>]}

\* Rows the polls of BackoffSpec may return
MaxBackoffPolled == 5

InitBackoff ==
    /\ cfg \in BackoffConfigs
    /\ limits = Limits(1, 1, 0, 1, MaxBackoffPolled)
    /\ codes = {200, 500}
    /\ outages = FALSE
    /\ applications = {1}
    /\ endpoints = <<Endpoint(1, <<>>, TRUE)>>
    /\ messages = <<>>
    /\ deliveries = <<>>
    /\ attempts = EmptyBag
    /\ ids = [msg |-> 0, dlv |-> 0]
    /\ InitPool
    /\ InitRest

NextBackoff ==
    \/ \E app \in applications, eventType \in EventTypes, failOp \in FailOps,
          k \in DOMAIN endpoints :
            MessageHandlerSend(app, eventType, failOp, k)
    \/ \E t \in Tasks, err \in BOOLEAN, result \in SendResults : ProcessSend(t, err, result)
    \/ \E t \in Tasks, ok \in BOOLEAN : ProcessCreateAttempt(t, ok)
    \/ \E t \in Tasks, ok \in BOOLEAN : ProcessUpdateDelivery(t, ok)
    \/ \E ok \in BOOLEAN : PollTick(ok)
    \/ PollDispatch
    \/ AdvanceTime

BackoffSpec == InitBackoff /\ [][NextBackoff]_vars

-----------------------------------------------------------------------------
(* PollSpec: two messages ingested at different times, up to three
   deliveries, one or two workers, receivers that can fail. *)

PollConfigs == [Workers : 1..MaxWorkers, MaxAttempts : {2}, RetrySchedule : {<<30>>}]

\* Deliveries that PollSpec lets ingest create
MaxPollDeliveries == 3

\* Rows the polls of PollSpec may return
MaxPollPolled == 4

InitPoll ==
    /\ cfg \in PollConfigs
    /\ limits = Limits(2, MaxPollDeliveries, 0, 0, MaxPollPolled)
    /\ codes = {200, 500}
    /\ outages = FALSE
    /\ InitStore
    /\ InitPool
    /\ InitRest

NextPoll ==
    \/ \E app \in applications, eventType \in EventTypes, failOp \in FailOps,
          k \in DOMAIN endpoints :
            MessageHandlerSend(app, eventType, failOp, k)
    \/ \E t \in Tasks, result \in SendResults : ProcessSend(t, FALSE, result)
    \/ \E t \in Tasks, ok \in BOOLEAN : ProcessCreateAttempt(t, ok)
    \/ \E t \in Tasks, ok \in BOOLEAN : ProcessUpdateDelivery(t, ok)
    \/ \E ok \in BOOLEAN : PollTick(ok)
    \/ PollDispatch
    \/ AdvanceTime

PollSpec == InitPoll /\ [][NextPoll]_vars

-----------------------------------------------------------------------------
(* LiveSpec: one worker, two endpoints with disjoint subscriptions, store
   calls that always succeed, a poller that ticks for ever and fair
   scheduling of the poller, the workers and the clock. *)

\* Deliveries that LiveSpec lets ingest create
MaxLiveDeliveries == 2

InitLive ==
    /\ cfg = [Workers |-> 1, MaxAttempts |-> 2, RetrySchedule |-> <<30>>]
    /\ limits = Limits(MaxLiveDeliveries, MaxLiveDeliveries, 0, 0, Unlimited)
    /\ codes = {200, 500}
    /\ outages = FALSE
    /\ applications = {1}
    /\ endpoints = <<Endpoint(1, <<<<"a", ".", "*">>>>, TRUE),
                     Endpoint(1, <<EvB>>, TRUE)>>
    /\ messages = <<>>
    /\ deliveries = <<>>
    /\ attempts = EmptyBag
    /\ ids = [msg |-> 0, dlv |-> 0]
    /\ InitPool
    /\ InitRest

NextLive ==
    \/ \E app \in applications, eventType \in EventTypes, failOp \in FailOps,
          k \in DOMAIN endpoints :
            MessageHandlerSend(app, eventType, failOp, k)
    \/ \E e \in DOMAIN endpoints : Toggle(e)
    \/ \E t \in Tasks, result \in SendResults : ProcessSend(t, FALSE, result)
    \/ \E t \in Tasks, ok \in BOOLEAN : ProcessCreateAttempt(t, ok)
    \/ \E t \in Tasks, ok \in BOOLEAN : ProcessUpdateDelivery(t, ok)
    \/ \E ok \in BOOLEAN : PollTick(ok)
    \/ PollDispatch
    \/ AdvanceTime

Fairness ==
    /\ WF_vars(PollTick(TRUE))
    /\ WF_vars(PollDispatch)
    /\ WF_vars(\E t \in Tasks, result \in SendResults : ProcessSend(t, FALSE, result))
    /\ WF_vars(\E t \in Tasks : ProcessCreateAttempt(t, TRUE))
    /\ WF_vars(\E t \in Tasks : ProcessUpdateDelivery(t, TRUE))
    /\ WF_vars(AdvanceTime)

LiveSpec == InitLive /\ [][NextLive]_vars /\ Fairness

-----------------------------------------------------------------------------
(* FanoutSpec: ingest and endpoint toggling only, with a second application
   that owns an endpoint of its own. *)

InitFanout ==
    /\ cfg \in Configs
    /\ limits = Limits(2, 4, 0, 2, 0)
    /\ codes = {200}
    /\ outages = FALSE
    /\ applications = {1, 2}
    /\ endpoints = InitEndpoints \o <<Endpoint(2, <<>>, TRUE)>>
    /\ messages = <<>>
    /\ deliveries = <<>>
    /\ attempts = EmptyBag
    /\ ids = [msg |-> 0, dlv |-> 0]
    /\ InitPool
    /\ InitRest

NextFanout ==
    \/ \E app \in applications, eventType \in EventTypes, failOp \in FailOps,
          k \in DOMAIN endpoints :
            MessageHandlerSend(app, eventType, failOp, k)
    \/ \E e \in DOMAIN endpoints : Toggle(e)

FanoutSpec == InitFanout /\ [][NextFanout]_vars

-----------------------------------------------------------------------------
(* MatchSpec: matchesEventType applied once to a subscription list and an
   event type drawn from short strings over a four-letter alphabet. *)

Alphabet == {"a", "b", ".", "*"}

Strings(n) == UNION {[1..m -> Alphabet] : m \in 0..n}

Lists(n) == UNION {[1..m -> Strings(MaxStrLen)] : m \in 0..n}

InitMatch ==
    /\ cfg = [Workers |-> 1, MaxAttempts |-> 1, RetrySchedule |-> <<30>>]
    /\ limits = Limits(0, 0, 0, 0, 0)
    /\ codes = {200}
    /\ outages = FALSE
    /\ InitStore
    /\ InitPool
    /\ now = 0
    /\ mainPc = "running"
    /\ retryH = NoHandler
    /\ retries = 0
    /\ faults = 0
    /\ polled = 0
    /\ sends = <<>>
    /\ ingestLog = <<>>
    /\ payloads = {2}
    /\ ctxDone = FALSE
    /\ request = NoRequest
    /\ signer = NoSigned
    /\ wire = NoWire
    /\ subs \in Lists(MaxSubs)
    /\ evt \in Strings(MaxStrLen)
    /\ matchResult = <<>>

Match ==
    /\ matchResult = <<>>
    /\ matchResult' = <<matchesEventType(subs, evt)>>
    /\ UNCHANGED <<cfg, limits, codes, outages, payloads, wire, ctxDone, request, signer,
                   subs, evt, now, storeVars, poolVars, mainPc, retryH, retries,
                   faults, polled, sends, ingestLog>>

MatchSpec == InitMatch /\ [][Match]_vars

-----------------------------------------------------------------------------
(* IngestSpec: producers that post payloads of sizes around the limit, the
   handler taken step by step, and the pool with one worker draining the
   deliveries meanwhile. *)

BoundaryPayloads ==
    {0, 2, maxPayloadSize, maxPayloadSize + 1}
        \cup {maxPayloadSize - 28 - Len(e) + j : e \in EventTypes, j \in {0, 1}}

InitIngest ==
    /\ cfg = [Workers |-> 1, MaxAttempts |-> 1, RetrySchedule |-> <<30>>]
    /\ limits = Limits(1, 2, 0, 1, 2)
    /\ codes = {200, 500}
    /\ outages = FALSE
    /\ InitStore
    /\ InitPool
    /\ now = 0
    /\ mainPc = "running"
    /\ retryH = NoHandler
    /\ retries = 0
    /\ faults = 0
    /\ polled = 0
    /\ sends = <<>>
    /\ ingestLog = <<>>
    /\ payloads = BoundaryPayloads
    /\ ctxDone = FALSE
    /\ request = NoRequest
    /\ signer = NoSigned
    /\ wire = NoWire
    /\ subs = <<>>
    /\ evt = <<>>
    /\ matchResult = <<>>

NextIngest ==
    \/ \E app \in applications, eventType \in EventTypes, payloadLen \in payloads,
          failOp \in FailOps :
            MessageHandlerSendBegin(app, eventType, payloadLen, failOp)
    \/ \E ok \in BOOLEAN : MessageHandlerSendCreateDelivery(ok)
    \/ \E t \in Tasks, result \in SendResults : ProcessSend(t, FALSE, result)
    \/ \E t \in Tasks, ok \in BOOLEAN : ProcessCreateAttempt(t, ok)
    \/ \E t \in Tasks, ok \in BOOLEAN : ProcessUpdateDelivery(t, ok)
    \/ \E ok \in BOOLEAN : PollTick(ok)
    \/ PollDispatch

IngestSpec == InitIngest /\ [][NextIngest]_vars

-----------------------------------------------------------------------------
(* The signer and the request the sender builds.  Bytes are characters;
   SHA-256 is taken as collision free: a digest is the pair of the block
   key and the message it was computed from. *)

\* fmt.Sprintf("%d", n) for n >= 0
RECURSIVE Decimal(_)
Decimal(n) ==
    LET digit == <<"0", "1", "2", "3", "4", "5", "6", "7", "8", "9">>[(n % 10) + 1]
    IN  IF n < 10 THEN <<digit>> ELSE Decimal(n \div 10) \o <<digit>>

\* Variant: the timestamp is left out of the signed bytes
ToSignPayloadOnly(timestamp, payload) == payload

\* fmt.Sprintf("%d.%s", timestamp, string(payload))
ToSign(timestamp, payload) == Decimal(timestamp) \o <<".">> \o payload

\* hmac.New(sha256.New, key): a key of up to 64 bytes is padded with zero
\* bytes to the block size, a longer one is replaced by its digest
BlockKey(key) ==
    IF Len(key) > 64 THEN <<[sha256 |-> key]>>
    ELSE key \o [i \in 1..(64 - Len(key)) |-> "NUL"]

\* mac.Write(toSign); hex.EncodeToString(mac.Sum(nil))
HexMac(secret, toSign) == [hex |-> [key |-> BlockKey(secret), msg |-> toSign]]

\* Sign at wall-clock time `at`: the signature and the timestamp
Sign(secret, payload, at) ==
    [signature |-> <<"v1=", HexMac(secret, ToSign(at, payload))>>, timestamp |-> at]

\* Variant: Verify signs the payload before the timestamp
VerifyPayloadFirst(secret, payload, timestamp, signature) ==
    <<"v1=", HexMac(secret, payload \o <<".">> \o Decimal(timestamp))>> = signature

Verify(secret, payload, timestamp, signature) ==
    <<"v1=", HexMac(secret, ToSign(timestamp, payload))>> = signature

\* models.NewSecret: whsec_ and a fixed number of letters and digits
SecretChars == {"a", "Z"}
MaxSecretLen == 1
Secrets == {<<"w", "h", "s", "e", "c", "_">> \o tail : tail \in [1..MaxSecretLen -> SecretChars]}

\* Payloads: short byte strings with digits and dots among them
PayloadChars == {"1", ".", "x"}
MaxPayloadLen == 2
SignedPayloads == UNION {[1..n -> PayloadChars] : n \in 1..MaxPayloadLen}

MaxTimestamp == 10

\* Sender.Send, lines 33-50: sign, and set the headers of the request
SenderSend(secret, payload) ==
    /\ LET signed == Sign(secret, payload, now)
       IN  signer' = [signed |-> TRUE, secret |-> secret, payload |-> payload,
                      timestamp |-> signed.timestamp,
                      headers |-> [Timestamp |-> Decimal(signed.timestamp),
                                   Signature |-> signed.signature],
                      body |-> payload,
                      verified |-> <<>>]
    /\ UNCHANGED <<inputVars, ctxDone, request, polled, now, storeVars, poolVars,
                   mainPc, retryH, retries, faults, sends, ingestLog>>

\* A receiver checks the request it got with the secret and the timestamp
\* it holds
ReceiverVerify(secret, timestamp) ==
    /\ signer.signed
    /\ signer.verified = <<>>
    /\ signer' = [signer EXCEPT !.verified =
                    <<[secret |-> secret, timestamp |-> timestamp,
                       ok |-> Verify(secret, signer.body, timestamp,
                                     signer.headers.Signature)]>>]
    /\ UNCHANGED <<inputVars, ctxDone, request, polled, now, storeVars, poolVars,
                   mainPc, retryH, retries, faults, sends, ingestLog>>

\* time.Now().Unix() grows
ClockTick ==
    /\ now < MaxTimestamp
    /\ now' = now + 1
    /\ UNCHANGED <<envVars, polled, storeVars, poolVars, mainPc, retryH, retries,
                   faults, sends, ingestLog>>

InitSign ==
    /\ cfg = [Workers |-> 1, MaxAttempts |-> 1, RetrySchedule |-> <<30>>]
    /\ limits = Limits(0, 0, 0, 0, 0)
    /\ codes = {200}
    /\ outages = FALSE
    /\ InitStore
    /\ InitPool
    /\ InitRest

NextSign ==
    \/ \E secret \in Secrets, payload \in SignedPayloads : SenderSend(secret, payload)
    \/ \E secret \in Secrets, timestamp \in 0..(MaxTimestamp + 1) :
            ReceiverVerify(secret, timestamp)
    \/ ClockTick

SignSpec == InitSign /\ [][NextSign]_vars

-----------------------------------------------------------------------------
(* SenderSpec: one message fanned out to two endpoints, one worker, and
   receivers whose responses have bodies around the limit of the sender's
   reader, arrive after some latency, and can break off; the request that
   each send puts on the wire is recorded. *)

BoundaryBodies == {0, responseLimit, responseLimit + 1}

InitSender ==
    /\ cfg = [Workers |-> 1, MaxAttempts |-> 1, RetrySchedule |-> <<30>>]
    /\ limits = Limits(1, 2, 0, 1, 2)
    /\ codes = {200, 500}
    /\ outages = TRUE
    /\ InitStore
    /\ InitPool
    /\ now = 0
    /\ mainPc = "running"
    /\ retryH = NoHandler
    /\ retries = 0
    /\ faults = 0
    /\ polled = 0
    /\ sends = <<>>
    /\ ingestLog = <<>>
    /\ payloads = {2}
    /\ ctxDone = FALSE
    /\ request = NoRequest
    /\ signer = NoSigned
    /\ wire = [bodies |-> BoundaryBodies, breaks |-> {Unbroken, 1},
               latencies |-> {0, 5}, capture |-> TRUE]
    /\ subs = <<>>
    /\ evt = <<>>
    /\ matchResult = <<>>

NextSender ==
    \/ \E app \in applications, eventType \in EventTypes, failOp \in FailOps,
          k \in DOMAIN endpoints :
            MessageHandlerSend(app, eventType, failOp, k)
    \/ \E t \in Tasks, result \in SendResults : ProcessSend(t, FALSE, result)
    \/ \E t \in Tasks : ProcessSendCancelled(t)
    \/ \E t \in Tasks, ok \in BOOLEAN : ProcessCreateAttempt(t, ok)
    \/ \E t \in Tasks, ok \in BOOLEAN : ProcessUpdateDelivery(t, ok)
    \/ \E ok \in BOOLEAN : PollTick(ok)
    \/ PollDispatch

SenderSpec == InitSender /\ [][NextSender]_vars

-----------------------------------------------------------------------------
(* OutageSpec: one endpoint that stays active, one worker, a store whose
   due-deliveries query fails on some ticks and whose other calls succeed,
   and fair scheduling of the poller, the workers and the clock. *)

\* Ticks on which the query may fail
MaxPollFaults == 2

\* Deliveries that OutageSpec lets ingest create
MaxOutageDeliveries == 2

InitOutage ==
    /\ cfg = [Workers |-> 1, MaxAttempts |-> 2, RetrySchedule |-> <<30>>]
    /\ limits = Limits(MaxOutageDeliveries, MaxOutageDeliveries, 0, MaxPollFaults, Unlimited)
    /\ codes = {200, 500}
    /\ outages = FALSE
    /\ applications = {1}
    /\ endpoints = <<Endpoint(1, <<>>, TRUE)>>
    /\ messages = <<>>
    /\ deliveries = <<>>
    /\ attempts = EmptyBag
    /\ ids = [msg |-> 0, dlv |-> 0]
    /\ InitPool
    /\ InitRest

NextOutage ==
    \/ \E app \in applications, eventType \in EventTypes, k \in DOMAIN endpoints :
            MessageHandlerSend(app, eventType, "none", k)
    \/ \E t \in Tasks, result \in SendResults : ProcessSend(t, FALSE, result)
    \/ \E t \in Tasks : ProcessCreateAttempt(t, TRUE)
    \/ \E t \in Tasks : ProcessUpdateDelivery(t, TRUE)
    \/ \E ok \in BOOLEAN : PollTick(ok)
    \/ PollDispatch
    \/ AdvanceTime

\* The ticker keeps firing and the store answers again in the end
OutageFairness ==
    /\ WF_vars(PollTick(TRUE))
    /\ WF_vars(PollDispatch)
    /\ WF_vars(\E t \in Tasks, result \in SendResults : ProcessSend(t, FALSE, result))
    /\ WF_vars(\E t \in Tasks : ProcessCreateAttempt(t, TRUE))
    /\ WF_vars(\E t \in Tasks : ProcessUpdateDelivery(t, TRUE))
    /\ WF_vars(AdvanceTime)

OutageSpec == InitOutage /\ [][NextOutage]_vars /\ OutageFairness

-----------------------------------------------------------------------------
(* CascadeSpec: two applications with an endpoint each, ingest, the pool
   with one worker, and deletion of endpoints and applications at any time. *)

InitCascade ==
    /\ cfg = [Workers |-> 1, MaxAttempts |-> 2, RetrySchedule |-> <<30>>]
    /\ limits = Limits(2, 2, 0, 1, 2)
    /\ codes = {200, 500}
    /\ outages = FALSE
    /\ applications = {1, 2}
    /\ endpoints = <<Endpoint(1, <<>>, TRUE), Endpoint(2, <<>>, TRUE)>>
    /\ messages = <<>>
    /\ deliveries = <<>>
    /\ attempts = EmptyBag
    /\ ids = [msg |-> 0, dlv |-> 0]
    /\ InitPool
    /\ InitRest

NextCascade ==
    \/ \E app \in applications, eventType \in EventTypes, failOp \in FailOps,
          k \in DOMAIN endpoints :
            MessageHandlerSend(app, eventType, failOp, k)
    \/ \E e \in DOMAIN endpoints : DeleteEndpoint(e)
    \/ \E app \in applications : DeleteApplication(app)
    \/ \E t \in Tasks, err \in BOOLEAN, result \in SendResults : ProcessSend(t, err, result)
    \/ \E t \in Tasks, ok \in BOOLEAN : ProcessCreateAttempt(t, ok)
    \/ \E t \in Tasks, ok \in BOOLEAN : ProcessUpdateDelivery(t, ok)
    \/ \E ok \in BOOLEAN : PollTick(ok)
    \/ PollDispatch
    \/ AdvanceTime

CascadeSpec == InitCascade /\ [][NextCascade]_vars

-----------------------------------------------------------------------------
(* StopSpec: the pool under a caller that may stop it and may cancel the
   context it passed to Start at any time (serveCmd itself cancels it only
   on return).  One worker, one message, store writes that can fail, fair
   scheduling of the goroutines; the select of pollLoop picks among its
   ready cases at random, so a case that is ready again and again is taken. *)

InitStop ==
    /\ cfg = [Workers |-> 1, MaxAttempts |-> 2, RetrySchedule |-> <<30>>]
    /\ limits = Limits(1, 1, 0, 1, Unlimited)
    /\ codes = {200, 500}
    /\ outages = FALSE
    /\ InitStore
    /\ InitPool
    /\ InitRest

NextStop ==
    \/ \E app \in applications, eventType \in EventTypes, failOp \in FailOps,
          k \in DOMAIN endpoints :
            MessageHandlerSend(app, eventType, failOp, k)
    \/ \E t \in Tasks, err \in BOOLEAN, result \in SendResults : ProcessSend(t, err, result)
    \/ \E t \in Tasks : ProcessSendCancelled(t)
    \/ \E t \in Tasks, ok \in BOOLEAN : ProcessCreateAttempt(t, ok)
    \/ \E t \in Tasks, ok \in BOOLEAN : ProcessUpdateDelivery(t, ok)
    \/ \E ok \in BOOLEAN : PollTick(ok)
    \/ PollDispatch
    \/ PollExit
    \/ CancelContext
    \/ Shutdown
    \/ PoolStop
    \/ StopReturns
    \/ CloseStore
    \/ AdvanceTime

StopFairness ==
    /\ WF_vars(\E t \in Tasks, err \in BOOLEAN, result \in SendResults :
                    ProcessSend(t, err, result))
    /\ WF_vars(\E t \in Tasks, ok \in BOOLEAN : ProcessCreateAttempt(t, ok))
    /\ WF_vars(\E t \in Tasks, ok \in BOOLEAN : ProcessUpdateDelivery(t, ok))
    /\ WF_vars(PollDispatch)
    /\ SF_vars(PollExit)
    /\ WF_vars(StopReturns)

StopSpec == InitStop /\ [][NextStop]_vars /\ StopFairness

-----------------------------------------------------------------------------
(* Claims *)

InFlight(id) == {t \in Tasks : t.d.ID = id}

\* The step in which task t persists its row and returns
Persists(t) ==
    /\ t.pc = "UpdateDelivery"
    /\ workers' = workers (-) SetToBag({t})
    /\ deliveries' # deliveries

SendSucceeded(result) ==
    result.Error = "" /\ 200 <= result.StatusCode /\ result.StatusCode < 300

\* C1: the row a worker writes after a send with incremented attempt count n
\* is (success, null) iff the send had no transport error and a status code
\* in 200..299; otherwise (failed, null) if n >= maxAttempts; otherwise
\* retrying.
C1_RetryClassification ==
    [][\A t \in Tasks :
        Persists(t) =>
            LET row == deliveries'[t.d.ID]
                n == t.d.AttemptCount
            IN  /\ row.AttemptCount = n
                /\ (row.Status = DeliverySuccess) <=> SendSucceeded(t.result)
                /\ SendSucceeded(t.result) => row.NextRetryAt = NoTime
                /\ (~SendSucceeded(t.result) /\ n >= cfg.MaxAttempts)
                        => (row.Status = DeliveryFailed /\ row.NextRetryAt = NoTime)
                /\ (~SendSucceeded(t.result) /\ n < cfg.MaxAttempts)
                        => row.Status = DeliveryRetrying]_vars

\* A 3xx answer and a transport error were both classified as failures
C1_Witness ==
    \E a \in BagToSet(attempts), b \in BagToSet(attempts) :
        /\ a.StatusCode = 300
        /\ b.Error # ""
        /\ a.DeliveryID = b.DeliveryID
        /\ deliveries[a.DeliveryID].Status = DeliveryFailed
        /\ deliveries[a.DeliveryID].AttemptCount = cfg.MaxAttempts

\* C2: at most one worker processes a given delivery row at a time.
C2_SingleFlight ==
    \A t \in Tasks : CopiesIn(t, workers) = 1 /\ InFlight(t.d.ID) = {t}

\* C3: for every delivery that no worker is processing, the number of its
\* attempt rows equals its attempt_count.
AttemptRows(id) ==
    LET rows == AttemptsOf(id)
        RECURSIVE Sum(_)
        Sum(S) == IF S = {} THEN 0
                  ELSE LET a == CHOOSE x \in S : TRUE
                       IN  CopiesIn(a, attempts) + Sum(S \ {a})
    IN  Sum(rows)

C3_AttemptRowsEqualCount ==
    \A id \in DeliveryIds :
        InFlight(id) = {} => AttemptRows(id) = deliveries[id].AttemptCount

\* C4: for every delivery that no worker is processing, its attempt numbers
\* are exactly 1..attempt_count, none missing and none repeated.
C4_AttemptNumbersContiguous ==
    \A id \in DeliveryIds :
        InFlight(id) = {} =>
            /\ {a.AttemptNumber : a \in AttemptsOf(id)} = 1..deliveries[id].AttemptCount
            /\ AttemptRows(id) = deliveries[id].AttemptCount

\* C5: every delivery whose stored status is success or failed has a null
\* next_retry_at.
C5_TerminalHasNoRetryTime ==
    \A id \in DeliveryIds :
        deliveries[id].Status \in {DeliverySuccess, DeliveryFailed}
            => deliveries[id].NextRetryAt = NoTime

\* A delivery that waited for a retry time and is terminal now
C5_Witness ==
    \E id \in DeliveryIds :
        /\ deliveries[id].Status \in {DeliverySuccess, DeliveryFailed}
        /\ deliveries[id].AttemptCount >= 2
        /\ now > 0

\* C6 as claimed: every failed delivery has attempt_count = maxAttempts.
C6_FailedCountEqualsMax ==
    \A id \in DeliveryIds :
        deliveries[id].Status = DeliveryFailed
            => deliveries[id].AttemptCount = cfg.MaxAttempts

\* C6 as amended: every failed delivery has attempt_count >= maxAttempts, and
\* attempt_count = maxAttempts as long as no manual retry has been made.
C6_FailedCountAtLeastMax ==
    \A id \in DeliveryIds :
        deliveries[id].Status = DeliveryFailed
            => /\ deliveries[id].AttemptCount >= cfg.MaxAttempts
               /\ retries = 0 => deliveries[id].AttemptCount = cfg.MaxAttempts

\* A delivery failed again after a manual retry
C6_Witness ==
    \E id \in DeliveryIds :
        /\ deliveries[id].Status = DeliveryFailed
        /\ deliveries[id].AttemptCount > cfg.MaxAttempts
        /\ retries > 0

\* C8: the number of worker tasks in flight never exceeds `workers`.
C8_InFlightAtMostWorkers == BagCardinality(workers) <= cfg.Workers

\* The poller blocked on the semaphore with `workers` tasks in flight
C8_Witness ==
    /\ BagCardinality(workers) = cfg.Workers
    /\ pollerPc = "dispatch"
    /\ batch # <<>>

\* C7: every delivery is eventually sent at least once unless its endpoint is
\* inactive at some point, whatever other deliveries are due.
C7_EventuallySent ==
    \A d \in 1..MaxLiveDeliveries :
        (d \in DeliveryIds) ~>
            (/\ d \in DeliveryIds
             /\ sends[d] >= 1 \/ ~endpoints[deliveries[d].EndpointID].Active)

\* The endpoints that are active, owned by the application and match the
\* event type
Eligible(app, eventType) ==
    {e \in DOMAIN endpoints :
        /\ endpoints[e].Active
        /\ endpoints[e].AppID = app
        /\ matchesEventType(endpoints[e].EventTypes, eventType)}

\* C9: when ingest has stored a message, the endpoints with a delivery for
\* it are exactly the endpoints that were active, owned by the message's
\* application and matching its event type at ingest.
C9_FanoutExact ==
    [][messages' # messages =>
        LET m == ids'.msg
        IN  {deliveries'[i].EndpointID :
                i \in {j \in DOMAIN deliveries' : deliveries'[j].MessageID = m}}
              = Eligible(messages'[m].AppID, messages'[m].EventType)]_vars

\* sub is `p.*` and e is p or starts with `p.`
PrefixOrEqual(sub, e) ==
    /\ Len(sub) >= 2
    /\ sub[Len(sub) - 1] = "."
    /\ sub[Len(sub)] = "*"
    /\ \/ e = SubSeq(sub, 1, Len(sub) - 2)
       \/ /\ Len(e) >= Len(sub) - 1
          /\ \A j \in 1..(Len(sub) - 1) : e[j] = sub[j]

\* sub is `p.*` and e starts with `p.`
PrefixOnly(sub, e) ==
    /\ Len(sub) >= 2
    /\ sub[Len(sub) - 1] = "."
    /\ sub[Len(sub)] = "*"
    /\ Len(e) >= Len(sub) - 1
    /\ \A j \in 1..(Len(sub) - 1) : e[j] = sub[j]

\* C10 as claimed: match(subs, e) is true iff subs is empty or some
\* subscription is `*`, equals e, or is `p.*` where e equals p or starts
\* with `p.`.
C10_MatchPrefixOrEqual ==
    matchResult # <<>> =>
        (matchResult[1] <=>
            \/ subs = <<>>
            \/ \E i \in 1..Len(subs) :
                subs[i] = Star \/ subs[i] = evt \/ PrefixOrEqual(subs[i], evt))

\* C10 as amended: match(subs, e) is true iff subs is empty or some
\* subscription is `*`, equals e, or is `p.*` where e starts with `p.`; the
\* bare prefix p is not matched by `p.*`.
C10_MatchPrefixOnly ==
    matchResult # <<>> =>
        (matchResult[1] <=>
            \/ subs = <<>>
            \/ \E i \in 1..Len(subs) :
                subs[i] = Star \/ subs[i] = evt \/ PrefixOnly(subs[i], evt))

\* match(["a.*"], "a") was computed and is false
C10_Witness ==
    /\ subs = << <<"a", ".", "*">> >>
    /\ evt = <<"a">>
    /\ matchResult = <<FALSE>>

\* The step in which task t leaves the pool
Leaves(t) == CopiesIn(t, workers') < CopiesIn(t, workers)

\* The attempt of task t failed with the retry schedule exhausted
Exhausted(t) ==
    /\ t.pc = "UpdateDelivery"
    /\ ~SendSucceeded(t.result)
    /\ t.d.AttemptCount < cfg.MaxAttempts
    /\ t.d.AttemptCount - 1 >= Len(retrySchedule)

\* C11: when an attempt fails with new attempt count n < maxAttempts and
\* n - 1 >= len(schedule), the worker completes normally and, when its
\* update succeeds, has stored the row as failed with next_retry_at null.
C11_ExhaustionMarksFailed ==
    [][\A t \in Tasks :
        (Exhausted(t) /\ Leaves(t)) =>
            /\ mainPc' = mainPc
            /\ deliveries' # deliveries =>
                    /\ deliveries'[t.d.ID].Status = DeliveryFailed
                    /\ deliveries'[t.d.ID].NextRetryAt = NoTime]_vars

\* C12: after a failed attempt with new count n, n < maxAttempts and
\* 1 <= n <= len(schedule), next_retry_at is the time of the update plus
\* schedule[n-1]; with schedule [30s, 2m, 10m] and maxAttempts 4 the delays
\* after attempts 1, 2, 3 are 30 s, 120 s, 600 s and attempt 4 fails the
\* delivery.
C12_BackoffDelay ==
    [][\A t \in Tasks :
        (Persists(t) /\ ~SendSucceeded(t.result)) =>
            LET n == t.d.AttemptCount
                row == deliveries'[t.d.ID]
            IN  /\ (n < cfg.MaxAttempts /\ 1 <= n /\ n <= Len(cfg.RetrySchedule))
                        => row.NextRetryAt = now + cfg.RetrySchedule[n]
                /\ (cfg.RetrySchedule = <<30, 120, 600>> /\ cfg.MaxAttempts = 4)
                        => /\ n = 1 => row.NextRetryAt - now = 30
                           /\ n = 2 => row.NextRetryAt - now = 120
                           /\ n = 3 => row.NextRetryAt - now = 600
                           /\ n = 4 => row.Status = DeliveryFailed]_vars

\* Four failed attempts at times 0, 30, 150 and 750
C12_Witness ==
    /\ cfg.MaxAttempts = 4
    /\ now = 750
    /\ \E id \in DeliveryIds :
        /\ deliveries[id].Status = DeliveryFailed
        /\ deliveries[id].AttemptCount = 4
        /\ {a.AttemptNumber : a \in AttemptsOf(id)} = 1..4

\* C13: a delivery whose stored status is failed keeps its row (status,
\* attempt_count, next_retry_at) in every step that is not a manual retry of
\* its message.
C13_FailedStaysFailed ==
    [][\A id \in DeliveryIds :
        (deliveries[id].Status = DeliveryFailed /\ deliveries'[id] # deliveries[id])
            => /\ ~retryH.idle
               /\ retryH.msg = deliveries[id].MessageID
               /\ workers' = workers]_vars

\* C14: no step of a worker changes a delivery row whose stored status is
\* success.
C14_SuccessAbsorbing ==
    [][\A id \in DeliveryIds :
        (deliveries[id].Status = DeliverySuccess /\ workers' # workers)
            => deliveries'[id] = deliveries[id]]_vars

\* The step in which MessageHandler.Retry has read the deliveries
RetryStarts == retryH.idle /\ ~retryH'.idle

\* A step of MessageHandler.Retry on the next failed delivery it read
RetryWrites == ~retryH.idle /\ retryH' # retryH

\* C15: manual retry of a message selects exactly its failed deliveries; each
\* row it writes was failed and becomes retrying with next_retry_at = the
\* handler's now and the same attempt_count; all other deliveries and all
\* attempt rows stay unchanged; the count it answers is the number of rows
\* it moved (a delivery whose update fails is neither moved nor counted).
C15_ManualRetryFrame ==
    [][/\ RetryStarts =>
            /\ {r.ID : r \in {retryH'.pending[j] : j \in 1..Len(retryH'.pending)}}
                  = {id \in DeliveryIds :
                        /\ deliveries[id].MessageID = retryH'.msg
                        /\ deliveries[id].Status = DeliveryFailed}
            /\ retryH'.retried = 0
            /\ deliveries' = deliveries
       /\ RetryWrites =>
            LET d == Head(retryH.pending)
                old == deliveries[d.ID]
                moved == deliveries' # deliveries
            IN  /\ attempts' = attempts
                /\ \A id \in DeliveryIds \ {d.ID} : deliveries'[id] = deliveries[id]
                /\ moved =>
                        /\ old.Status = DeliveryFailed
                        /\ deliveries'[d.ID] =
                              [old EXCEPT !.Status = DeliveryRetrying,
                                          !.NextRetryAt = retryH.now]
                /\ retryH'.retried = retryH.retried + (IF moved THEN 1 ELSE 0)]_vars

\* C16: manual retry writes the row with the attempt count it read, which is
\* at least maxAttempts; the attempt that follows (count above maxAttempts)
\* ends normally and stores failed if it fails and success if it succeeds,
\* never retrying.
C16_RetriedAttemptIsTerminal ==
    [][/\ (RetryWrites /\ deliveries' # deliveries) =>
            LET d == Head(retryH.pending)
            IN  /\ deliveries'[d.ID].AttemptCount = d.AttemptCount
                /\ d.AttemptCount >= cfg.MaxAttempts
       /\ \A t \in Tasks :
            (t.pc = "UpdateDelivery" /\ t.d.AttemptCount > cfg.MaxAttempts /\ Leaves(t))
                => /\ mainPc' = mainPc
                   /\ deliveries' # deliveries =>
                        /\ deliveries'[t.d.ID].AttemptCount = t.d.AttemptCount
                        /\ deliveries'[t.d.ID].NextRetryAt = NoTime
                        /\ deliveries'[t.d.ID].Status =
                              IF SendSucceeded(t.result) THEN DeliverySuccess
                              ELSE DeliveryFailed]_vars

\* A delivery that succeeded on the attempt after its manual retry
C16_Witness ==
    /\ retries > 0
    /\ \E id \in DeliveryIds :
        /\ deliveries[id].Status = DeliverySuccess
        /\ deliveries[id].AttemptCount = cfg.MaxAttempts + 1
        /\ \E a \in AttemptsOf(id) :
              a.AttemptNumber = cfg.MaxAttempts + 1 /\ a.StatusCode = 200

\* The step in which a poll has returned rows
PollReturns == pollerPc = "select" /\ pollerPc' = "dispatch"

\* The delivery is pending or retrying with next_retry_at null or <= now
DueNow(id) ==
    /\ deliveries[id].Status \in {DeliveryPending, DeliveryRetrying}
    /\ deliveries[id].NextRetryAt = NoTime \/ deliveries[id].NextRetryAt <= now

\* C17: a poll returns at most `limit` rows, each a stored delivery that is
\* pending or retrying with next_retry_at null or <= now, no row twice, in
\* ascending creation order; every due delivery it leaves out is at least as
\* new as every row it returns, and it leaves one out only when it returns
\* `limit` rows.
C17_DueQuery ==
    [][PollReturns =>
        LET n == Len(batch')
            returned == {batch'[j].ID : j \in 1..n}
        IN  /\ n <= cfg.Workers
            /\ \A j \in 1..n :
                    /\ batch'[j].ID \in DeliveryIds
                    /\ batch'[j] = deliveries[batch'[j].ID]
                    /\ DueNow(batch'[j].ID)
            /\ \A i, j \in 1..n :
                    i < j => /\ batch'[i].ID # batch'[j].ID
                             /\ batch'[i].CreatedAt <= batch'[j].CreatedAt
            /\ \A id \in DeliveryIds \ returned :
                    DueNow(id) =>
                        /\ n = cfg.Workers
                        /\ \A j \in 1..n :
                                batch'[j].CreatedAt <= deliveries[id].CreatedAt]_vars

\* A poll has just returned `limit` rows, leaving out an older delivery whose
\* retry time is in the future and a due delivery beyond the limit
C17_Witness ==
    /\ pollerPc = "dispatch"
    /\ Len(batch) = cfg.Workers
    /\ \A j \in 1..Len(batch) : batch[j] = deliveries[batch[j].ID]
    /\ \E id \in DeliveryIds :
        /\ deliveries[id].Status = DeliveryRetrying
        /\ deliveries[id].NextRetryAt > now
        /\ deliveries[id].CreatedAt < batch[1].CreatedAt
    /\ \E id \in DeliveryIds \ {batch[j].ID : j \in 1..Len(batch)} :
        /\ deliveries[id].Status = DeliveryPending
        /\ deliveries[id].NextRetryAt = NoTime

\* C18: when Pool.Stop has returned, the poller has exited and every worker
\* it spawned has returned from Process.
C18_StopAwaitsAllTasks ==
    mainPc \in {"stopped", "closed"} =>
        /\ pollerPc = "exited"
        /\ workers = EmptyBag
        /\ batch = <<>>

\* Pool.Stop is waiting: the poller has exited, a worker is still in Process
C18_Witness ==
    /\ mainPc = "stopping"
    /\ pollerPc = "exited"
    /\ workers # EmptyBag

\* C19: once the stop signal has been given, the poller starts no further
\* worker task.
C19_NoDispatchAfterStop ==
    [][mainPc = "stopping" => BagCardinality(workers') <= BagCardinality(workers)]_vars

\* C20: requests are taken only before the API server is stopped; the
\* poller is told to stop only after that, and exits only when told; the
\* store is closed only when the poller has exited and no worker is left;
\* nothing touches the store after it is closed.
C20_ShutdownOrder ==
    [][/\ (messages' # messages \/ endpoints' # endpoints \/ RetryStarts)
            => mainPc = "running"
       /\ (mainPc' = "stopping" /\ mainPc # "stopping")
            => (mainPc = "draining" /\ retryH.idle)
       /\ (pollerPc' = "exited" /\ pollerPc # "exited") => mainPc = "stopping"
       /\ (mainPc' = "closed" /\ mainPc # "closed")
            => (pollerPc = "exited" /\ workers = EmptyBag /\ wg = 0)
       /\ mainPc = "closed"
            => (storeVars' = storeVars /\ workers' = EmptyBag)]_vars

\* The store is closed after a shutdown during which a delivery was sent
C20_Witness ==
    /\ mainPc = "closed"
    /\ \E id \in DeliveryIds :
        /\ sends[id] >= 1
        /\ deliveries[id].Status \in {DeliverySuccess, DeliveryRetrying}

\* The step in which the update of task t fails after its attempt row was
\* written
UpdateFails(t) ==
    /\ t.pc = "UpdateDelivery"
    /\ Leaves(t)
    /\ faults' = faults + 1
    /\ NewAttempt(t.d, t.result) \in BagToSet(attempts)

AsRead(t) ==
    /\ t.d.ID \in DeliveryIds
    /\ deliveries[t.d.ID] = [t.d EXCEPT !.AttemptCount = @ - 1]

C22_NoAdvanceWithoutAttempt ==
    [][\A t \in Tasks :
        /\ (Leaves(t) /\ faults' = faults + 1) => deliveries' = deliveries
        /\ Persists(t) => NewAttempt(t.d, t.result) \in BagToSet(attempts)]_vars

\* C23: a send cancelled by the context is recorded as an attempt row with
\* status code 0 and a non-empty error, and the worker then stores the
\* delivery as the retry classification gives it.
C23_CancelledSendRecorded ==
    [][\A t \in Tasks :
        (t.result = Cancelled /\ t.pc = "UpdateDelivery" /\ Leaves(t)) =>
            LET a == NewAttempt(t.d, t.result)
                d == Classify(t.d, t.result)
            IN  /\ a \in BagToSet(attempts')
                /\ a.StatusCode = 0
                /\ a.Error # ""
                /\ deliveries'[t.d.ID].Status = d.Status
                /\ deliveries'[t.d.ID].AttemptCount = d.AttemptCount
                /\ deliveries'[t.d.ID].NextRetryAt = d.NextRetryAt]_vars

\* C30: once the pool is told to stop or its context is cancelled, and every
\* send in flight returns, the poller exits (also when it was blocked on the
\* semaphore), and a Pool.Stop that was called returns.
C30_ShutdownTerminates ==
    /\ (mainPc = "stopping" \/ ctxDone) ~> (pollerPc = "exited")
    /\ (mainPc = "stopping") ~> (mainPc \in {"stopped", "closed"})

\* Pool.Stop was called while the poller is blocked on the semaphore: the one
\* slot is held by a worker whose send has not returned
C30_Witness ==
    /\ mainPc = "stopping"
    /\ pollerPc = "dispatch"
    /\ sem = cfg.Workers
    /\ \E t \in Tasks : t.pc = "Send"

\* A step of MessageHandler.Send, and the step in which it answers
IngestSteps == request' # request
IngestReturns == IngestSteps /\ request'.idle

\* The rows an ingest step adds are pending with attempt count 0 and no retry
\* time; the step performs no send and writes no attempt row; the count in
\* a 202 answer is the number of rows the request created.
FanoutFrame ==
    IngestSteps =>
        /\ \A id \in DOMAIN deliveries' \ DeliveryIds :
              /\ deliveries'[id].Status = DeliveryPending
              /\ deliveries'[id].AttemptCount = 0
              /\ deliveries'[id].NextRetryAt = NoTime
        /\ \A id \in DeliveryIds : deliveries'[id] = deliveries[id]
        /\ attempts' = attempts
        /\ \A id \in DeliveryIds : sends'[id] = sends[id]
        /\ workers' = workers
        /\ (IngestReturns /\ request'.status = 202) =>
              /\ request'.deliveries = Cardinality(request'.created)
              /\ request'.created \subseteq DOMAIN deliveries'
              /\ request'.created =
                    {id \in DOMAIN deliveries' : deliveries'[id].MessageID = request'.msg}

\* C24: fan-out creates every delivery pending with attempt count 0 and
\* next_retry_at null, performs no send during ingest, so that no attempt row
\* exists for any of its deliveries when ingest returns, and returns the
\* number of delivery rows it created.
C24_NoAttemptAtReturn ==
    [][/\ FanoutFrame
       /\ (IngestReturns /\ request'.status = 202) =>
            \A id \in request'.created : AttemptsOf(id)' = {}]_vars

\* C24 without the state of the attempts table at the return: the handler
\* itself creates pending rows, sends nothing, writes no attempt row and
\* answers the number of rows it created.
C24_FanoutCreatesPending == [][FanoutFrame]_vars

\* An ingest has answered 202 for two deliveries, the first of which the
\* pool has meanwhile sent and recorded
C24_Witness ==
    /\ request.idle
    /\ request.status = 202
    /\ request.deliveries = 2
    /\ \E id \in request.created : AttemptsOf(id) # {}
    /\ \E id \in request.created :
          /\ deliveries[id].Status = DeliveryPending
          /\ deliveries[id].AttemptCount = 0

\* The step in which MessageHandler.Send has decoded and validated a request
IngestBegins == request.idle /\ IngestSteps

\* C25: a payload of exactly 262144 bytes (and any non-empty smaller one) is
\* accepted, a payload of 262145 bytes (or more) is rejected; a rejected
\* ingest persists no message and no delivery.
C25_PayloadBoundary ==
    [][IngestBegins =>
        LET n == request'.payloadLen
        IN  /\ (0 < n /\ n <= maxPayloadSize) => request'.status # 400
            /\ n > maxPayloadSize => request'.status = 400
            /\ request'.status = 400 => storeVars' = storeVars]_vars

\* The step in which the sender signs a request, and the one in which the
\* receiver has checked it
Signs == signer'.signed /\ signer'.verified = <<>> /\ signer' # signer
Verifies == signer.signed /\ signer'.verified # signer.verified /\ signer'.verified # <<>>

\* C26: verify(secret, payload, ts, sig) is true when (sig, ts) =
\* sign(secret, payload); the signature is a function of (secret, payload,
\* timestamp) alone.
C26_SignVerifyRoundTrip ==
    [][/\ Verifies =>
            LET v == signer'.verified[1]
            IN  (v.secret = signer.secret /\ v.timestamp = signer.timestamp) => v.ok
       /\ (Signs /\ signer.signed) =>
            ((signer'.secret = signer.secret /\ signer'.payload = signer.payload
                /\ signer'.timestamp = signer.timestamp)
              => signer'.headers.Signature = signer.headers.Signature)]_vars

\* A request signed at time 10 whose payload holds a digit and a dot, found
\* valid by its receiver
C26_Witness ==
    /\ signer.signed
    /\ signer.timestamp = 10
    /\ signer.payload = <<"1", ".">>
    /\ signer.verified # <<>>
    /\ signer.verified[1].ok

\* C27: the signature binds the timestamp and the secret: verification with
\* timestamp T + 1, or with another secret, fails; the X-PipeRelay-Timestamp
\* header is the decimal form of the signed timestamp.
C27_SignatureBinds ==
    [][/\ Verifies =>
            LET v == signer'.verified[1]
            IN  /\ (v.secret = signer.secret /\ v.timestamp = signer.timestamp + 1) => ~v.ok
                /\ v.secret # signer.secret => ~v.ok
                /\ v.ok <=> (v.secret = signer.secret /\ v.timestamp = signer.timestamp)
       /\ Signs =>
            /\ signer'.timestamp = now
            /\ signer'.headers.Timestamp = Decimal(signer'.timestamp)
            /\ signer'.headers.Signature =
                  Sign(signer'.secret, signer'.body, signer'.timestamp).signature]_vars

\* A request signed at time 9 was refused by a receiver that recomputed the
\* signature with time 10
C27_Witness ==
    /\ signer.signed
    /\ signer.timestamp = 9
    /\ signer.headers.Timestamp = <<"9">>
    /\ signer.verified # <<>>
    /\ signer.verified[1].secret = signer.secret
    /\ signer.verified[1].timestamp = 10
    /\ ~signer.verified[1].ok

\* Every reference in the store points to an existing row
ReferencesValid ==
    /\ \A e \in DOMAIN endpoints : endpoints[e].AppID \in applications
    /\ \A m \in DOMAIN messages : messages[m].AppID \in applications
    /\ \A id \in DeliveryIds :
          /\ deliveries[id].MessageID \in DOMAIN messages
          /\ deliveries[id].EndpointID \in DOMAIN endpoints
    /\ \A a \in BagToSet(attempts) : a.DeliveryID \in DeliveryIds

\* C28: every delivery references an existing message and endpoint and every
\* attempt an existing delivery; deleting an application removes its
\* endpoints, messages, deliveries and attempts, deleting an endpoint its
\* deliveries and their attempts; a worker that finishes on its copy of a
\* deleted delivery writes nothing.
C28_CascadeKeepsReferences ==
    /\ []ReferencesValid
    /\ [][/\ \A app \in applications \ applications' :
                /\ \A e \in DOMAIN endpoints' : endpoints'[e].AppID # app
                /\ \A m \in DOMAIN messages' : messages'[m].AppID # app
          /\ \A e \in DOMAIN endpoints \ DOMAIN endpoints' :
                \A id \in DeliveryIds :
                    deliveries[id].EndpointID = e =>
                        /\ id \notin DOMAIN deliveries'
                        /\ \A a \in BagToSet(attempts') : a.DeliveryID # id
          /\ \A m \in DOMAIN messages \ DOMAIN messages' :
                \A id \in DeliveryIds :
                    deliveries[id].MessageID = m => id \notin DOMAIN deliveries'
          /\ \A t \in Tasks :
                (t.d.ID \notin DeliveryIds /\ workers' # workers)
                    => storeVars' = storeVars]_vars

\* The endpoint of a delivery was deleted while a worker, now about to
\* update the row, was sending it; the message is still there
C28_Witness ==
    \E t \in Tasks :
        /\ t.pc = "UpdateDelivery"
        /\ t.d.ID \notin DeliveryIds
        /\ t.d.EndpointID \notin DOMAIN endpoints
        /\ t.d.MessageID \in DOMAIN messages
        /\ DeliveryIds # {}

\* C29: as long as no manual retry was made, the number of HTTP sends made
\* for a delivery is at most maxAttempts.
C29_SendsBounded ==
    retries = 0 => \A id \in DOMAIN sends : sends[id] <= cfg.MaxAttempts

\* The step in which task t returns from Process without sending
Abandons(t) == t.pc = "Send" /\ workers' = workers (-) SetToBag({t})

\* The endpoint that task t finds is there and inactive
FindsInactive(t) ==
    /\ t.d.EndpointID \in DOMAIN endpoints
    /\ ~endpoints[t.d.EndpointID].Active

\* C31: a worker that cannot load the message or the endpoint of its
\* delivery sends nothing, records no attempt and leaves the delivery row
\* unchanged, and the delivery stays due for the later polls.
C31_AbandonedStaysDue ==
    [][\A t \in Tasks :
        (Abandons(t) /\ ~FindsInactive(t)) =>
            /\ storeVars' = storeVars
            /\ sends' = sends
            /\ t.d.ID \in DeliveryIds
            /\ DueNow(t.d.ID)]_vars

\* C31 with deletion and the other writers taken into account: the worker
\* sends nothing and writes nothing; the delivery stays due when its row is
\* still there as the worker's poll read it.
C31_AbandonWritesNothing ==
    [][\A t \in Tasks :
        (Abandons(t) /\ ~FindsInactive(t)) =>
            /\ storeVars' = storeVars
            /\ sends' = sends
            /\ (t.d.ID \in DeliveryIds /\ deliveries[t.d.ID] = t.d) => DueNow(t.d.ID)]_vars

\* The one delivery there is was returned by a poll and its worker has left
\* without a send (a lookup failed): the row is as it was, and due
C31_Witness ==
    /\ ids.dlv = 1
    /\ polled = 1
    /\ workers = EmptyBag
    /\ batch = <<>>
    /\ 1 \in DeliveryIds
    /\ endpoints[deliveries[1].EndpointID].Active
    /\ sends[1] = 0
    /\ AttemptsOf(1) = {}
    /\ deliveries[1].Status = DeliveryPending
    /\ DueNow(1)

\* A worker is about to load the endpoint of the due delivery d and will find
\* it inactive
Skipped(d) ==
    /\ d \in DeliveryIds
    /\ DueNow(d)
    /\ \E t \in Tasks : t.pc = "Send" /\ t.d.ID = d /\ FindsInactive(t)

\* The endpoint of delivery d is active
EndpointActive(d) ==
    /\ d \in DeliveryIds
    /\ endpoints[deliveries[d].EndpointID].Active

\* C32: a worker that finds the endpoint of its delivery inactive sends
\* nothing, records no attempt and leaves the store unchanged, and a delivery
\* that was skipped this way is sent once its endpoint is active again and
\* stays active.
C32_SkippedSentOnceActive ==
    /\ [][\A t \in Tasks :
            (Abandons(t) /\ FindsInactive(t)) =>
                storeVars' = storeVars /\ sends' = sends]_vars
    /\ \A d \in 1..MaxLiveDeliveries :
            (<>Skipped(d) /\ <>[]EndpointActive(d))
                => <>(d \in DOMAIN sends /\ sends[d] >= 1)

\* The attempt rows that the step adds
NewAttempts == {a \in BagToSet(attempts') : CopiesIn(a, attempts') > CopiesIn(a, attempts)}

\* C33: a step of a worker on delivery D changes no delivery row other than
\* D's, adds attempt rows only for D, removes none, and changes no message,
\* endpoint or application.
C33_DeliveriesIndependent ==
    [][\A t \in Tasks :
        Leaves(t) =>
            /\ DOMAIN deliveries' = DOMAIN deliveries
            /\ \A i \in DeliveryIds \ {t.d.ID} : deliveries'[i] = deliveries[i]
            /\ \A a \in NewAttempts : a.DeliveryID = t.d.ID
            /\ \A a \in BagToSet(attempts) : CopiesIn(a, attempts') >= CopiesIn(a, attempts)
            /\ <<messages, endpoints, applications>>' = <<messages, endpoints, applications>>]_vars

\* Both deliveries of one message exist, the first is stored as success with
\* its attempt row and the second is as ingest created it
C33_Witness ==
    /\ DeliveryIds = {1, 2}
    /\ deliveries[1].MessageID = deliveries[2].MessageID
    /\ deliveries[1].Status = DeliverySuccess
    /\ AttemptsOf(1) # {}
    /\ deliveries[2].Status = DeliveryPending
    /\ deliveries[2].AttemptCount = 0
    /\ AttemptsOf(2) = {}
    /\ workers = EmptyBag

\* The step in which task t sends
Sends(t) == t.pc = "Send" /\ Leaves(t) /\ ~Abandons(t)

\* The step in which task t has called CreateAttempt
Records(t) == t.pc = "CreateAttempt" /\ Leaves(t)

\* C34: a send that fails in transport yields status code 0 and a non-empty
\* error; a send that gets a response yields an empty error, the status code
\* of the response and at most the first 1024 bytes of its body; the attempt
\* row a worker writes holds exactly the values of the result of its send;
\* and every send carries the message id of its delivery in X-PipeRelay-ID.
C34_ResultRecorded ==
    [][/\ \A o \in Outcomes, ms \in wire.latencies :
            LET r == SendResult(o, ms)
            IN  IF o.failed
                THEN r.StatusCode = 0 /\ r.Error # ""
                ELSE /\ r.Error = ""
                     /\ r.StatusCode = o.code
                     /\ r.ResponseBody <= responseLimit
                     /\ r.ResponseBody <= o.length
       /\ \A t \in Tasks :
            /\ t.pc # "Send" =>
                    /\ t.result \in SendResults \cup {Cancelled}
                    /\ t.result.StatusCode = 0 <=> t.result.Error # ""
            /\ Sends(t) =>
                    /\ signer'.delivery = t.d.ID
                    /\ signer'.headers.ID = t.d.MessageID
            /\ Records(t) =>
                    \A a \in NewAttempts :
                        /\ a.DeliveryID = t.d.ID
                        /\ a.AttemptNumber = t.d.AttemptCount
                        /\ a.StatusCode = t.result.StatusCode
                        /\ a.ResponseBody = t.result.ResponseBody
                        /\ a.LatencyMs = t.result.LatencyMs
                        /\ a.Error = t.result.Error]_vars

\* The second delivery of message 1 was sent with X-PipeRelay-ID 1, the
\* receiver answered 200 with a body that fills the reader, and the attempt
\* row holds the status code, the 1024 bytes and the latency
C34_Witness ==
    /\ signer.signed
    /\ signer.delivery = 2
    /\ signer.headers.ID = 1
    /\ \E a \in AttemptsOf(2) :
            /\ a.StatusCode = 200
            /\ a.Error = ""
            /\ a.ResponseBody = responseLimit
            /\ a.LatencyMs = 5

\* C35: the number of semaphore slots held equals the number of goroutines
\* running Process, in every reachable state: a slot is taken with each
\* spawn and given back with each return.
C35_SlotsEqualWorkers ==
    /\ sem = BagCardinality(workers)
    /\ sem >= 0

\* One worker has returned after storing a success while another one runs
C35_Witness ==
    /\ \E id \in DeliveryIds :
            deliveries[id].Status = DeliverySuccess /\ InFlight(id) = {}
    /\ BagCardinality(workers) = 1
    /\ sem = 1

\* C36: no step lowers the stored attempt_count of a delivery, whatever the
\* interleaving of worker completions and manual retries.
C36_AttemptCountMonotonic ==
    [][\A id \in DeliveryIds :
        id \in DOMAIN deliveries' =>
            deliveries'[id].AttemptCount >= deliveries[id].AttemptCount]_vars

\* C37: every stored delivery whose status is retrying has a next_retry_at
\* that is not null.
C37_RetryingHasRetryTime ==
    \A id \in DeliveryIds :
        deliveries[id].Status = DeliveryRetrying => deliveries[id].NextRetryAt # NoTime

\* With three attempts allowed and a schedule of one delay, a worker has met
\* the exhausted schedule on a second failure and a row is stored as retrying
C37_Witness ==
    /\ cfg.MaxAttempts = 3
    /\ Len(retrySchedule) = 1
    /\ mainPc = "crashed"
    /\ \E id \in DeliveryIds :
            /\ deliveries[id].Status = DeliveryRetrying
            /\ deliveries[id].AttemptCount = 1
            /\ deliveries[id].NextRetryAt # NoTime

\* C38: the stored status of a delivery never becomes pending again, and it
\* changes only from pending or retrying to success, retrying or failed, or
\* from failed to retrying in a step of a manual retry.
C38_StatusTransitions ==
    [][\A id \in DeliveryIds :
        id \in DOMAIN deliveries' =>
            LET from == deliveries[id].Status
                to == deliveries'[id].Status
            IN  \/ to = from
                \/ /\ from \in {DeliveryPending, DeliveryRetrying}
                   /\ to \in {DeliverySuccess, DeliveryRetrying, DeliveryFailed}
                \/ /\ from = DeliveryFailed
                   /\ to = DeliveryRetrying
                   /\ retryH' # retryH]_vars

\* C39: no two delivery rows have the same message and the same endpoint.
C39_OneDeliveryPerPair ==
    \A i \in DeliveryIds : \A j \in DeliveryIds :
        (/\ deliveries[i].MessageID = deliveries[j].MessageID
         /\ deliveries[i].EndpointID = deliveries[j].EndpointID) => i = j

\* A message was fanned out to two endpoints, both deliveries were tried and
\* a manual retry has put a failed one back
C39_Witness ==
    /\ DeliveryIds = {1, 2}
    /\ deliveries[1].MessageID = deliveries[2].MessageID
    /\ deliveries[1].EndpointID # deliveries[2].EndpointID
    /\ AttemptsOf(1) # {} /\ AttemptsOf(2) # {}
    /\ retries >= 1
    /\ \E id \in DeliveryIds : deliveries[id].Status = DeliveryRetrying

\* C40: a tick whose due-deliveries query fails dispatches nothing, writes
\* nothing and leaves the poller in its loop, and a delivery that is due
\* after a failed query is dispatched once the query succeeds again.  (In
\* OutageSpec the query is the only store call that fails, so a step that
\* raises `faults` is a failed poll.)
C40_FailedPollKeepsPolling ==
    /\ [][faults' # faults =>
            /\ pollerPc = "select" /\ pollerPc' = "select"
            /\ batch' = <<>>
            /\ <<sem, wg, workers>>' = <<sem, wg, workers>>
            /\ storeVars' = storeVars]_vars
    /\ \A d \in 1..MaxOutageDeliveries :
            (faults >= 1 /\ d \in DeliveryIds /\ DueNow(d)) ~> (InFlight(d) # {})

\* The query has failed on two ticks, the first delivery has been retried
\* and the poller has dispatched the second delivery
C40_Witness ==
    /\ faults = 2
    /\ pollerPc = "select"
    /\ 1 \in DeliveryIds /\ deliveries[1].AttemptCount = 2
    /\ InFlight(2) # {}


=============================================================================
